---------------------------- MODULE Spec2Model ----------------------------
(***************************************************************************)
(* A model of the contract retrieval and extractive-answering engine       *)
(* (app/rag_model.py) and of its evaluation harness (app/metrics_rag.py).  *)
(*                                                                         *)
(* Strings are sequences of one-character strings, so that lower(),        *)
(* strip(), split(), splitlines(), the substring test and the regular      *)
(* expressions are computed character by character, as Python does.        *)
(* Numbers that are floats in the program are exact rationals here         *)
(* (pairs of integers), or integers in thousandths once round(x, 3) has    *)
(* been applied.                                                           *)
(***************************************************************************)
EXTENDS Integers, Sequences, FiniteSets, TLC

VARIABLES
    pc,        \* position of the operation being run
    store,     \* the index blob at out_path / idx_path (NoIndex: no file)
    parsed,    \* the parsed JSON list given to build_index
    engine,    \* the engine argument of build_index
    sbert_ok,  \* whether sentence-transformers can be imported
    tie_rule,  \* how this build's argsort orders equal keys
    query,     \* ask(): query
    k,         \* ask(): k
    q2,        \* _search(): q = _rewrite_query(query)
    raw_hits,  \* ask(): raw_hits = _search(idx, query, k)
    hits,      \* ask(): hits = mmr(raw_hits, k, lambda_mmr)
    ans,       \* ask(): ans = extractive_answer(query, hits)
    bench,     \* metrics_rag: the suite, one bench (list of items) per dataset
    ds,        \* main(): index of the dataset being evaluated
    item,      \* eval_dataset(): index of the bench item being evaluated
    rows,      \* eval_dataset(): rows
    calls,     \* what run_ask returned for the items evaluated so far
    results,   \* main(): results (one agg per finished dataset)
    macro,     \* main(): macro
    m_hits,    \* compute_ranking_metrics(): the ids of hits
    m_gold,    \* compute_ranking_metrics(): gold_ids
    m_k,       \* compute_ranking_metrics(): k_eval (0: None)
    m_rank,    \* the metrics compute_ranking_metrics returned
    loaded,    \* what the load(idx_path) calls of concurrent asks returned
    api_key,   \* generative_answer(): whether GEMINI_API_KEY is set
    call,      \* generative_answer(): how the call of the external model ends
    searches,  \* the _search calls one process has made: query, k and result
    csv        \* eval_dataset(): the rows written to out_csv

vars == <<pc, store, parsed, engine, sbert_ok, tie_rule, query, k, q2, raw_hits,
          hits, ans, bench, ds, item, rows, calls, results, macro, m_hits, m_gold,
          m_k, m_rank, loaded, api_key, call, searches, csv>>

idxVars  == <<store, parsed, engine, sbert_ok, tie_rule>>
askVars  == <<query, k, raw_hits, hits, ans>>
evalVars == <<bench, ds, item, rows, calls, results, macro>>
rankVars == <<m_hits, m_gold, m_k, m_rank>>
genVars  == <<api_key, call>>
lateVars == <<searches, csv>>
moreVars == <<rankVars, loaded, genVars, lateVars>>
auxVars  == <<moreVars, q2>>

(***************************************************************************)
(* Characters and Python's string operations.                              *)
(***************************************************************************)
UpperChars == {"A", "B", "C", "D", "E", "F", "G", "H", "I", "J", "K", "L", "M",
               "N", "O", "P", "Q", "R", "S", "T", "U", "V", "W", "X", "Y", "Z"}
LowerChars == {"a", "b", "c", "d", "e", "f", "g", "h", "i", "j", "k", "l", "m",
               "n", "o", "p", "q", "r", "s", "t", "u", "v", "w", "x", "y", "z"}
DigitChars == {"0", "1", "2", "3", "4", "5", "6", "7", "8", "9"}
AlnumChars == UpperChars \cup LowerChars \cup DigitChars
SpaceChars == {" ", "\n", "\t"}
LineBreaks == {"\n"}

LowerFn ==
    [A |-> "a", B |-> "b", C |-> "c", D |-> "d", E |-> "e", F |-> "f", G |-> "g",
     H |-> "h", I |-> "i", J |-> "j", K |-> "k", L |-> "l", M |-> "m", N |-> "n",
     O |-> "o", P |-> "p", Q |-> "q", R |-> "r", S |-> "s", T |-> "t", U |-> "u",
     V |-> "v", W |-> "w", X |-> "x", Y |-> "y", Z |-> "z"]

LowerCh(c) == IF c \in UpperChars THEN LowerFn[c] ELSE c

\* The sequence f itself, as a tuple whose elements are computed once
Listed(f) == f \o <<>>

\* str.lower()
Lower(s) == Listed([i \in 1..Len(s) |-> LowerCh(s[i])])

\* s[a:b] for 0 <= a, b (Python slice of offsets)
Slice(s, a, b) ==
    IF a >= b \/ a >= Len(s) THEN <<>>
    ELSE SubSeq(s, a + 1, IF b > Len(s) THEN Len(s) ELSE b)

\* The least and the greatest element of a non-empty set of integers
Least(S) == CHOOSE x \in S : \A y \in S : x <= y
Greatest(S) == CHOOSE x \in S : \A y \in S : y <= x

\* str.strip()
Kept(s, keep) == IF keep = {} THEN <<>> ELSE SubSeq(s, Least(keep), Greatest(keep))
Strip(s) == Kept(s, {i \in 1..Len(s) : s[i] \notin SpaceChars})

\* sub in s
StartsAt(sub, s, i) ==
    /\ i + Len(sub) <= Len(s)
    /\ \A j \in 1..Len(sub) : s[i + j] = sub[j]

Contains(s, sub) == \E i \in 0..(Len(s) - Len(sub)) : StartsAt(sub, s, i)

\* sep.join(parts)
RECURSIVE Join(_, _)
Join(parts, sep) ==
    IF parts = <<>> THEN <<>>
    ELSE IF Len(parts) = 1 THEN parts[1]
    ELSE parts[1] \o sep \o Join(Tail(parts), sep)

\* The n-th smallest element of a set of integers
Nth(S, n) == CHOOSE x \in S : Cardinality({y \in S : y < x}) = n - 1

\* The pieces s[starts_j .. ends_j] of s, in order
Pieces(s, starts, ends) ==
    Listed([j \in 1..Cardinality(starts) |-> SubSeq(s, Nth(starts, j), Nth(ends, j))])

\* The maximal runs of characters of s that are not in seps, in order
SplitRuns(s, seps) ==
    Pieces(s,
           {i \in 1..Len(s) : s[i] \notin seps /\ (i = 1 \/ s[i - 1] \in seps)},
           {i \in 1..Len(s) : s[i] \notin seps /\ (i = Len(s) \/ s[i + 1] \in seps)})

\* str.split(): the maximal runs of non-whitespace characters
Split(s) == SplitRuns(s, SpaceChars)

\* str.splitlines(): the lines of s, each ended by a line break or by the end
\* of s; a final line break opens no further line, and "" has no line at all
SplitLines(s) ==
    Pieces(s,
           {i \in 1..Len(s) : i = 1 \/ s[i - 1] \in LineBreaks},
           {i \in 0..Len(s) : \/ i = Len(s) /\ i > 0 /\ s[i] \notin LineBreaks
                              \/ i < Len(s) /\ s[i + 1] \in LineBreaks})

(***************************************************************************)
(* Regular expressions, matched as Python's re does: a backtracking        *)
(* matcher that tries alternatives in order, greedy repetitions from the   *)
(* longest and lazy ones from the shortest, and searches for the leftmost  *)
(* start.  A pattern is a sequence of items; a class is a set of           *)
(* characters, possibly negated.  A pattern compiled with re.I is written  *)
(* in lower case and matched against the lowered text (SearchI); the       *)
(* offsets of the match are those in the text itself.                      *)
(***************************************************************************)
NoMatch == 0 - 1
Unbounded == 0 - 1

Cls(set) == [neg |-> FALSE, set |-> set]
NotCls(set) == [neg |-> TRUE, set |-> set]
ClsSpace == Cls(SpaceChars)                  \* \s
ClsAny == NotCls({})                         \* [\s\S]
ClsNotDot == NotCls({"."})                   \* [^.]
ClsDot == NotCls({"\n"})                     \* .
ClsDigit == Cls(DigitChars)                  \* \d
ClsWord == Cls(AlnumChars \cup {"_"})        \* \w

Item(t, lit, cls, lo, hi, greedy, alts) ==
    [t |-> t, lit |-> lit, cls |-> cls, lo |-> lo, hi |-> hi, greedy |-> greedy,
     alts |-> alts]
Lit(str) == Item("lit", str, {}, 0, 0, TRUE, <<>>)
Rep(cls, lo, hi) == Item("rep", <<>>, cls, lo, hi, TRUE, <<>>)
Lazy(cls, lo, hi) == Item("rep", <<>>, cls, lo, hi, FALSE, <<>>)
Alt(alts) == Item("alt", <<>>, {}, 0, 0, TRUE, alts)
Bos == Item("bos", <<>>, {}, 0, 0, TRUE, <<>>)
WordB == Item("wb", <<>>, {}, 0, 0, TRUE, <<>>)
Behind(cls) == Item("lb", <<>>, cls, 0, 0, TRUE, <<>>)

InCls(c, cls) == (c \in cls.set) # cls.neg

\* The first f[c] that is not NoMatch, for c from lo up to hi.
RECURSIVE FirstUp(_, _, _)
FirstUp(lo, hi, f) ==
    IF lo > hi THEN NoMatch
    ELSE IF lo = hi THEN f[lo]
    ELSE LET r == FirstUp(lo, (lo + hi) \div 2, f)
         IN  IF r # NoMatch THEN r ELSE FirstUp((lo + hi) \div 2 + 1, hi, f)

OrElse(r, d) == IF r = NoMatch THEN d ELSE r
AtMost(hi, n) == IF hi = Unbounded \/ hi > n THEN n ELSE hi

\* How many characters from offset i on are in cls, counted up to most.
RunTo(cls, s, i, most) ==
    OrElse(FirstUp(0, most - 1,
                   [c \in 0..(most - 1) |->
                       IF InCls(s[i + c + 1], cls) THEN NoMatch ELSE c]),
           most)
Run(cls, s, i, hi) == RunTo(cls, s, i, AtMost(hi, Len(s) - i))

IsWordCh(s, i) == i >= 1 /\ i <= Len(s) /\ InCls(s[i], ClsWord)

\* Of the pairs <<count, end>> of a repetition, the end of the one tried first
\* among those whose continuation matched.
Pick(good, greedy) ==
    IF good = {} THEN NoMatch
    ELSE (CHOOSE p \in good : \A o \in good :
              IF greedy THEN o[1] <= p[1] ELSE p[1] <= o[1])[2]

RECURSIVE Match(_, _, _), TryAlts(_, _, _, _)
\* The offset where the match of items that starts at offset i ends, or NoMatch.
Match(items, s, i) ==
    IF items = <<>> THEN i
    ELSE LET it == Head(items)
             rest == Tail(items)
         IN  CASE it.t = "lit" ->
                      IF StartsAt(it.lit, s, i)
                      THEN Match(rest, s, i + Len(it.lit)) ELSE NoMatch
               [] it.t = "rep" ->
                      Pick({p \in {<<c, Match(rest, s, i + c)>> :
                                      c \in it.lo..Run(it.cls, s, i, it.hi)} :
                               p[2] # NoMatch},
                           it.greedy)
               [] it.t = "alt" -> TryAlts(it.alts, rest, s, i)
               [] it.t = "bos" -> IF i = 0 THEN Match(rest, s, i) ELSE NoMatch
               [] it.t = "wb" ->
                      IF IsWordCh(s, i) # IsWordCh(s, i + 1)
                      THEN Match(rest, s, i) ELSE NoMatch
               [] it.t = "lb" ->
                      IF i >= 1 /\ InCls(s[i], it.cls)
                      THEN Match(rest, s, i) ELSE NoMatch

TryAlts(alts, rest, s, i) ==
    IF alts = <<>> THEN NoMatch
    ELSE OrElse(Match(Head(alts) \o rest, s, i), TryAlts(Tail(alts), rest, s, i))

\* pattern.search(s): the leftmost match from offset `from` on, as
\* [ok, start, end], m.group(0) being s[start:end]
NoSpan == [ok |-> FALSE, start |-> 0, end |-> 0]
SpanAt(items, s, at) ==
    IF at = NoMatch THEN NoSpan
    ELSE [ok |-> TRUE, start |-> at, end |-> Match(items, s, at)]

SearchFrom(items, s, from) ==
    SpanAt(items, s,
           FirstUp(from, Len(s),
                   [i \in from..Len(s) |->
                       IF Match(items, s, i) # NoMatch THEN i ELSE NoMatch]))

Search(items, s) == SearchFrom(items, s, 0)
SearchI(items, s) == SearchFrom(items, Lower(s), 0)
Group0(s, m) == Slice(s, m.start, m.end)

\* re.split(pattern, s): the pieces between the matches
RECURSIVE ReSplit(_, _, _), SplitAt(_, _, _, _)
ReSplit(items, s, from) == SplitAt(SearchFrom(items, s, from), items, s, from)

SplitAt(m, items, s, from) ==
    IF ~m.ok THEN <<Slice(s, from, Len(s))>>
    ELSE <<Slice(s, from, m.start)>> \o ReSplit(items, s, m.end)

\* re.findall(r"[A-Za-z0-9]+", s): the maximal runs of letters and digits
FindAllAlnum(s) == SplitRuns(s, {s[i] : i \in 1..Len(s)} \ AlnumChars)

\* re.findall(pattern, s) for a pattern without groups that matches no empty
\* string: the matches, left to right, each search starting where the
\* previous match ended
RECURSIVE FindAll(_, _, _), FoundAt(_, _, _)
FindAll(items, s, from) == FoundAt(SearchFrom(items, s, from), items, s)

FoundAt(m, items, s) ==
    IF ~m.ok THEN <<>> ELSE <<Group0(s, m)>> \o FindAll(items, s, m.end)
(***************************************************************************)
(* LEGAL_PATTERNS and the patterns of extractive_answer.  All but the      *)
(* sentence separator are compiled with re.I.                              *)
(***************************************************************************)
Sp1 == Rep(ClsSpace, 1, Unbounded)           \* \s+
Sp0 == Rep(ClsSpace, 0, Unbounded)           \* \s*
OptS == Rep(Cls({"s"}), 0, 1)                \* s?
NotDots0 == Rep(ClsNotDot, 0, Unbounded)     \* [^.]*
NotDots1 == Rep(ClsNotDot, 1, Unbounded)     \* [^.]+
LitDot == Lit(<<".">>)                         \* \.

\* governing law[^.]*\.
\* | construed and enforced in accordance with the laws of [^.]+\.
\* | laws? and regulations of [^.]+\.               (blanks are \s+)
PatGoverningLaw ==
    <<Alt(<< <<Lit(<<"g", "o", "v", "e", "r", "n", "i", "n", "g">>), Sp1, Lit(<<"l", "a", "w">>), NotDots0, LitDot>>,
             <<Lit(<<"c", "o", "n", "s", "t", "r", "u", "e", "d">>), Sp1, Lit(<<"a", "n", "d">>), Sp1,
               Lit(<<"e", "n", "f", "o", "r", "c", "e", "d">>), Sp1, Lit(<<"i", "n">>), Sp1,
               Lit(<<"a", "c", "c", "o", "r", "d", "a", "n", "c", "e">>), Sp1, Lit(<<"w", "i", "t", "h">>), Sp1,
               Lit(<<"t", "h", "e">>), Sp1, Lit(<<"l", "a", "w", "s">>), Sp1, Lit(<<"o", "f">>), Sp1,
               NotDots1, LitDot>>,
             <<Lit(<<"l", "a", "w">>), OptS, Sp1, Lit(<<"a", "n", "d">>), Sp1, Lit(<<"r", "e", "g", "u", "l", "a", "t", "i", "o", "n", "s">>), Sp1,
               Lit(<<"o", "f">>), Sp1, NotDots1, LitDot>> >>)>>

\* (?:^|\n)\s*Termination[\s\S]{0,1000} | terminate[^.]{0,800}\.
PatTermination ==
    <<Alt(<< <<Alt(<< <<Bos>>, <<Lit(<<"\n">>)>> >>), Sp0, Lit(<<"t", "e", "r", "m", "i", "n", "a", "t", "i", "o", "n">>),
               Rep(ClsAny, 0, 1000)>>,
             <<Lit(<<"t", "e", "r", "m", "i", "n", "a", "t", "e">>), Rep(ClsNotDot, 0, 800), LitDot>> >>)>>

\* pass[-\s]?through cost | monthly Management Services charge
\* | settle all charges.*?on a net basis | invoice[^.]{0,300}\.
\* | milestone[^.]{0,300}\. | net\s*(?:10|15|30|45|60)\s*days[^.]*\.
PatPayment ==
    <<Alt(<< <<Lit(<<"p", "a", "s", "s">>), Rep(Cls({"-"} \cup SpaceChars), 0, 1),
               Lit(<<"t", "h", "r", "o", "u", "g", "h", " ", "c", "o", "s", "t">>)>>,
             <<Lit(<<"m", "o", "n", "t", "h", "l", "y", " ", "m", "a", "n", "a", "g", "e", "m", "e", "n", "t", " ", "s", "e", "r", "v", "i", "c", "e", "s", " ", "c", "h", "a", "r", "g", "e">>)>>,
             <<Lit(<<"s", "e", "t", "t", "l", "e", " ", "a", "l", "l", " ", "c", "h", "a", "r", "g", "e", "s">>), Lazy(ClsDot, 0, Unbounded),
               Lit(<<"o", "n", " ", "a", " ", "n", "e", "t", " ", "b", "a", "s", "i", "s">>)>>,
             <<Lit(<<"i", "n", "v", "o", "i", "c", "e">>), Rep(ClsNotDot, 0, 300), LitDot>>,
             <<Lit(<<"m", "i", "l", "e", "s", "t", "o", "n", "e">>), Rep(ClsNotDot, 0, 300), LitDot>>,
             <<Lit(<<"n", "e", "t">>), Sp0,
               Alt(<< <<Lit(<<"1", "0">>)>>, <<Lit(<<"1", "5">>)>>, <<Lit(<<"3", "0">>)>>, <<Lit(<<"4", "5">>)>>,
                      <<Lit(<<"6", "0">>)>> >>),
               Sp0, Lit(<<"d", "a", "y", "s">>), NotDots0, LitDot>> >>)>>

\* between\s+.*?\s+and\s+.*?\) | by and among\s+.*?\)
PatParties ==
    <<Alt(<< <<Lit(<<"b", "e", "t", "w", "e", "e", "n">>), Sp1, Lazy(ClsDot, 0, Unbounded), Sp1, Lit(<<"a", "n", "d">>), Sp1,
               Lazy(ClsDot, 0, Unbounded), Lit(<<")">>)>>,
             <<Lit(<<"b", "y", " ", "a", "n", "d", " ", "a", "m", "o", "n", "g">>), Sp1, Lazy(ClsDot, 0, Unbounded),
               Lit(<<")">>)>> >>)>>

\* (?:confidential|proprietary)[\s\S]{0,800}
PatConfidential ==
    <<Alt(<< <<Lit(<<"c", "o", "n", "f", "i", "d", "e", "n", "t", "i", "a", "l">>)>>, <<Lit(<<"p", "r", "o", "p", "r", "i", "e", "t", "a", "r", "y">>)>> >>),
      Rep(ClsAny, 0, 800)>>

\* laws?\s+of\s+the\s+State\s+of\s+[A-Za-z ]+[^.]*?(?:venue|jurisdiction)[^.]*?\.
PatGoverningVenue ==
    <<Lit(<<"l", "a", "w">>), OptS, Sp1, Lit(<<"o", "f">>), Sp1, Lit(<<"t", "h", "e">>), Sp1, Lit(<<"s", "t", "a", "t", "e">>), Sp1,
      Lit(<<"o", "f">>), Sp1, Rep(Cls(UpperChars \cup LowerChars \cup {" "}), 1, Unbounded),
      Lazy(ClsNotDot, 0, Unbounded),
      Alt(<< <<Lit(<<"v", "e", "n", "u", "e">>)>>, <<Lit(<<"j", "u", "r", "i", "s", "d", "i", "c", "t", "i", "o", "n">>)>> >>),
      Lazy(ClsNotDot, 0, Unbounded), LitDot>>

\* (?:IN\s+NO\s+EVENT|in no event)[\s\S]{0,200}?
\* (?:aggregate\s+liability|liability\b)[\s\S]{0,400}?(?:exceed|greater of)
\* [\s\S]{0,200}?(?:fees|amounts)\s+(?:paid|received)[\s\S]{0,200}?
\* (?:\b\d{1,2}\s*\(?\d{1,2}?\)?\s*months|\btwelve\s*\(?12\)?\s*months|\byear)\b
\* [\s\S]{0,200}\.
PatLiabilityCap ==
    <<Alt(<< <<Lit(<<"i", "n">>), Sp1, Lit(<<"n", "o">>), Sp1, Lit(<<"e", "v", "e", "n", "t">>)>>,
             <<Lit(<<"i", "n", " ", "n", "o", " ", "e", "v", "e", "n", "t">>)>> >>),
      Lazy(ClsAny, 0, 200),
      Alt(<< <<Lit(<<"a", "g", "g", "r", "e", "g", "a", "t", "e">>), Sp1, Lit(<<"l", "i", "a", "b", "i", "l", "i", "t", "y">>)>>,
             <<Lit(<<"l", "i", "a", "b", "i", "l", "i", "t", "y">>), WordB>> >>),
      Lazy(ClsAny, 0, 400),
      Alt(<< <<Lit(<<"e", "x", "c", "e", "e", "d">>)>>, <<Lit(<<"g", "r", "e", "a", "t", "e", "r", " ", "o", "f">>)>> >>),
      Lazy(ClsAny, 0, 200),
      Alt(<< <<Lit(<<"f", "e", "e", "s">>)>>, <<Lit(<<"a", "m", "o", "u", "n", "t", "s">>)>> >>), Sp1,
      Alt(<< <<Lit(<<"p", "a", "i", "d">>)>>, <<Lit(<<"r", "e", "c", "e", "i", "v", "e", "d">>)>> >>),
      Lazy(ClsAny, 0, 200),
      Alt(<< <<WordB, Rep(ClsDigit, 1, 2), Sp0, Rep(Cls({"("}), 0, 1),
               Lazy(ClsDigit, 1, 2), Rep(Cls({")"}), 0, 1), Sp0, Lit(<<"m", "o", "n", "t", "h", "s">>)>>,
             <<WordB, Lit(<<"t", "w", "e", "l", "v", "e">>), Sp0, Rep(Cls({"("}), 0, 1), Lit(<<"1", "2">>),
               Rep(Cls({")"}), 0, 1), Sp0, Lit(<<"m", "o", "n", "t", "h", "s">>)>>,
             <<WordB, Lit(<<"y", "e", "a", "r">>)>> >>),
      WordB, Rep(ClsAny, 0, 200), LitDot>>

\* law_pat of extractive_answer: [^\.]*laws?\s+of\s+[^\.]+\.
PatLawSent ==
    <<NotDots0, Lit(<<"l", "a", "w">>), OptS, Sp1, Lit(<<"o", "f">>), Sp1, NotDots1, LitDot>>

\* the sentence separator of the lexical fallback: (?<=[\.\?\!])\s+
PatSentenceSep == <<Behind(Cls({".", "?", "!"})), Sp1>>

(***************************************************************************)
(* extractive_answer(query, hits, max_chars=700).  A hit is the tuple      *)
(* <<id, score, text>>.  The result is [kind, answer, citations], kind     *)
(* "raise" standing for an exception that leaves the function.             *)
(***************************************************************************)
MaxChars == 700
LawSentMin == 30
TopCites == 5

Quoted(str) == <<"\"">> \o str \o <<"\"">>
Returned(answer, cites) == [kind |-> "ok", answer |-> answer, citations |-> cites]
Raised(what) == [kind |-> "raise", answer |-> what, citations |-> <<>>]
FallThrough == [kind |-> "next", answer |-> <<>>, citations |-> <<>>]
NotFoundLower == <<"n", "o", "t", "_", "f", "o", "u", "n", "d">>
NOT_FOUND == <<"N", "O", "T", "_", "F", "O", "U", "N", "D">>

\* Python's truth value of a hit id (a string)
Truthy(id) == id # ""

FirstN(seq, n) == IF Len(seq) <= n THEN seq ELSE SubSeq(seq, 1, n)
HitIds(hs) == [i \in 1..Len(hs) |-> hs[i][1]]

\* pack_with_best_citation: cite the first hit whose text contains the span;
\* without such a hit, or if its id is false, cite the first five hits
Containing(hs, mtxt) == {i \in 1..Len(hs) : mtxt # <<>> /\ Contains(hs[i][3], mtxt)}
\* the citations without the cut at five
CitesUncut(hs, with) ==
    IF with # {} /\ Truthy(hs[Least(with)][1]) THEN <<hs[Least(with)][1]>>
    ELSE HitIds(hs)
Cites(hs, with) ==
    IF with # {} /\ Truthy(hs[Least(with)][1]) THEN <<hs[Least(with)][1]>>
    ELSE FirstN(HitIds(hs), TopCites)
Packed(mtxt, hs, max_chars) ==
    Returned(Quoted(Slice(mtxt, 0, max_chars)), Cites(hs, Containing(hs, mtxt)))
pack_with_best_citation(txt, hs, max_chars) == Packed(Strip(txt), hs, max_chars)

\* the keyword triggers, tested on q = query.lower()
AnyIn(q, kws) == \E w \in kws : Contains(q, w)
TrigGoverningLaw(q) == AnyIn(q, {<<"g", "o", "v", "e", "r", "n">>, <<"l", "a", "w">>, <<"j", "u", "r", "i", "s", "d">>})
TrigTermination(q) == AnyIn(q, {<<"t", "e", "r", "m", "i", "n", "a", "t">>, <<"e", "x", "p", "i", "r", "e">>})
TrigPayment(q) ==
    AnyIn(q, {<<"p", "a", "y", "m", "e", "n", "t">>, <<"f", "e", "e">>, <<"c", "h", "a", "r", "g", "e", "s">>, <<"s", "e", "t", "t", "l", "e">>,
              <<"c", "o", "m", "p", "e", "n", "s", "a", "t", "i", "o", "n">>})
TrigParties(q) ==
    AnyIn(q, {<<"p", "a", "r", "t", "i", "e", "s">>, <<"r", "o", "l", "e", "s">>, <<"b", "e", "t", "w", "e", "e", "n">>, <<"b", "y", " ", "a", "n", "d", " ", "a", "m", "o", "n", "g">>})
TrigConfidential(q) == AnyIn(q, {<<"c", "o", "n", "f", "i", "d", "e", "n", "t", "i", "a", "l">>})
TrigVenue(q) == AnyIn(q, {<<"v", "e", "n", "u", "e">>, <<"g", "o", "v", "e", "r", "n", "i", "n", "g">>, <<"l", "a", "w">>})
TrigLiabilityCap(q) == AnyIn(q, {<<"l", "i", "a", "b", "i", "l", "i", "t", "y">>, <<"c", "a", "p">>, <<"l", "i", "m", "i", "t">>})

\* the inline check of the governing-law branch: law_sent of a hit text
\* (empty without a match), and the first hit whose law_sent has more than
\* 30 characters, or 0
SpanText(m, txt) == IF m.ok THEN Strip(Group0(txt, m)) ELSE <<>>
LawSent(txt) == SpanText(SearchI(PatLawSent, txt), txt)

RECURSIVE LawSentHit(_, _)
LawSentHit(hs, i) ==
    IF i > Len(hs) THEN 0
    ELSE IF Len(LawSent(hs[i][3])) > LawSentMin THEN i
    ELSE LawSentHit(hs, i + 1)

\* the lexical fallback: the first sentence with the highest count of query
\* terms, among the non-empty sentences of at most max_chars characters
TermScore(sent, q_terms) ==
    Cardinality({j \in 1..Len(q_terms) : Contains(Lower(sent), q_terms[j])})

RECURSIVE BestSentence(_, _, _, _, _, _)
BestSentence(sents, i, q_terms, max_chars, best, score) ==
    IF i > Len(sents) THEN best
    ELSE IF /\ TermScore(sents[i], q_terms) > score
            /\ 0 < Len(sents[i]) /\ Len(sents[i]) <= max_chars
    THEN BestSentence(sents, i + 1, q_terms, max_chars, Strip(sents[i]),
                      TermScore(sents[i], q_terms))
    ELSE BestSentence(sents, i + 1, q_terms, max_chars, best, score)

LongerThan2(t) == Len(t) > 2
QTerms(q) == SelectSeq(FindAllAlnum(q), LongerThan2)

\* the last resort: hits[0][2].splitlines()[0]
FirstLineOf(lines, hs, max_chars) ==
    IF lines = <<>> THEN Raised(<<"IndexError">>)
    ELSE pack_with_best_citation(lines[1], hs, max_chars)

BestOr(best, hs, max_chars) ==
    IF best # <<>> THEN pack_with_best_citation(best, hs, max_chars)
    ELSE FirstLineOf(SplitLines(hs[1][3]), hs, max_chars)

LexicalFallback(q, hs, joined, max_chars) ==
    BestOr(BestSentence(ReSplit(PatSentenceSep, joined, 0), 1, QTerms(q), max_chars,
                        <<>>, 0),
           hs, max_chars)

\* `if m: return pack_with_best_citation(m.group(0))`, else the next branch
PackMatch(m, joined, hs, max_chars) ==
    IF m.ok THEN pack_with_best_citation(Group0(joined, m), hs, max_chars)
    ELSE FallThrough

\* the same with m.group(0).splitlines()[0]
PackFirstLine(m, joined, hs, max_chars) ==
    IF m.ok
    THEN pack_with_best_citation(SplitLines(Group0(joined, m))[1], hs, max_chars)
    ELSE FallThrough

\* the governing-law branch: hit i of the inline check, if there is one
LawOr(i, hs, otherwise) ==
    IF i # 0 THEN Returned(Quoted(LawSent(hs[i][3])), <<hs[i][1]>>) ELSE otherwise

\* the branches of extractive_answer, numbered in the order of the code
Branch(which, q, hs, joined, max_chars) ==
    CASE which = 1 ->
             IF TrigGoverningLaw(q)
             THEN LawOr(LawSentHit(hs, 1), hs,
                        PackMatch(SearchI(PatGoverningLaw, joined), joined, hs, max_chars))
             ELSE FallThrough
      [] which = 2 ->
             IF TrigTermination(q)
             THEN PackFirstLine(SearchI(PatTermination, joined), joined, hs, max_chars)
             ELSE FallThrough
      [] which = 3 ->
             IF TrigPayment(q)
             THEN PackMatch(SearchI(PatPayment, joined), joined, hs, max_chars)
             ELSE FallThrough
      [] which = 4 ->
             IF TrigParties(q)
             THEN PackMatch(SearchI(PatParties, joined), joined, hs, max_chars)
             ELSE FallThrough
      [] which = 5 ->
             IF TrigConfidential(q)
             THEN PackMatch(SearchI(PatConfidential, joined), joined, hs, max_chars)
             ELSE FallThrough
      [] which = 6 ->
             IF TrigVenue(q)
             THEN PackMatch(SearchI(PatGoverningVenue, joined), joined, hs, max_chars)
             ELSE FallThrough
      [] which = 7 ->
             IF TrigLiabilityCap(q)
             THEN PackMatch(SearchI(PatLiabilityCap, joined), joined, hs, max_chars)
             ELSE FallThrough

MatcherOrderSwapped == <<1, 3, 2, 4, 5, 6, 7>>
MatcherOrder == <<1, 2, 3, 4, 5, 6, 7>>

RECURSIVE TryMatchers(_, _, _, _, _), OrNext(_, _, _, _, _, _)
TryMatchers(order, q, hs, joined, max_chars) ==
    IF order = <<>> THEN LexicalFallback(q, hs, joined, max_chars)
    ELSE OrNext(Branch(Head(order), q, hs, joined, max_chars), Tail(order), q, hs,
                joined, max_chars)

OrNext(r, order, q, hs, joined, max_chars) ==
    IF r.kind # "next" THEN r ELSE TryMatchers(order, q, hs, joined, max_chars)

HitTexts(hs) == [i \in 1..Len(hs) |-> hs[i][3]]

extractive_answer(qry, hs, max_chars) ==
    IF hs = <<>> THEN Returned(NOT_FOUND, <<>>)
    ELSE TryMatchers(MatcherOrder, Lower(qry), hs, Join(HitTexts(hs), <<" ">>),
                     max_chars)

(***************************************************************************)
(* The inputs of the model: segment texts and queries.                     *)
(***************************************************************************)
\* T.ny = 'This Agreement is governed by the laws of the State of New York.'
\* T.term = 'Either party may terminate upon 30 days notice.'
\* T.empty = ''
\* T.blank = ' '
\* T.pay = 'Invoice due net 30 days. Fees stay confidential'
\* T.lines = 'Title\nTermination for cause'
\* T.parties = 'Made between Acme and Bolt (the Parties)'
\* T.short = 'Laws of Ohio.'
\* T.venue = 'The laws of the State of Ohio apply and venue lies in Ohio.'
\* T.cap = 'In no event shall liability exceed the fees paid in the prior year.'
T ==
    [
      ny |->
        <<"T", "h", "i", "s", " ", "A", "g", "r", "e", "e", "m", "e", "n", "t", " ", "i", 
       "s", " ", "g", "o", "v", "e", "r", "n", "e", "d", " ", "b", "y", " ", "t", "h", 
       "e", " ", "l", "a", "w", "s", " ", "o", "f", " ", "t", "h", "e", " ", "S", "t", 
       "a", "t", "e", " ", "o", "f", " ", "N", "e", "w", " ", "Y", "o", "r", "k", ".">>,
      term |->
        <<"E", "i", "t", "h", "e", "r", " ", "p", "a", "r", "t", "y", " ", "m", "a", "y", 
       " ", "t", "e", "r", "m", "i", "n", "a", "t", "e", " ", "u", "p", "o", "n", " ", 
       "3", "0", " ", "d", "a", "y", "s", " ", "n", "o", "t", "i", "c", "e", ".">>,
      empty |->
        <<>>,
      blank |->
        <<" ">>,
      pay |->
        <<"I", "n", "v", "o", "i", "c", "e", " ", "d", "u", "e", " ", "n", "e", "t", " ", 
       "3", "0", " ", "d", "a", "y", "s", ".", " ", "F", "e", "e", "s", " ", "s", "t", 
       "a", "y", " ", "c", "o", "n", "f", "i", "d", "e", "n", "t", "i", "a", "l">>,
      lines |->
        <<"T", "i", "t", "l", "e", "\n", "T", "e", "r", "m", "i", "n", "a", "t", "i", "o", 
       "n", " ", "f", "o", "r", " ", "c", "a", "u", "s", "e">>,
      parties |->
        <<"M", "a", "d", "e", " ", "b", "e", "t", "w", "e", "e", "n", " ", "A", "c", "m", 
       "e", " ", "a", "n", "d", " ", "B", "o", "l", "t", " ", "(", "t", "h", "e", " ", 
       "P", "a", "r", "t", "i", "e", "s", ")">>,
      short |->
        <<"L", "a", "w", "s", " ", "o", "f", " ", "O", "h", "i", "o", ".">>,
      venue |->
        <<"T", "h", "e", " ", "l", "a", "w", "s", " ", "o", "f", " ", "t", "h", "e", " ", 
       "S", "t", "a", "t", "e", " ", "o", "f", " ", "O", "h", "i", "o", " ", "a", "p", 
       "p", "l", "y", " ", "a", "n", "d", " ", "v", "e", "n", "u", "e", " ", "l", "i", 
       "e", "s", " ", "i", "n", " ", "O", "h", "i", "o", ".">>,
      cap |->
        <<"I", "n", " ", "n", "o", " ", "e", "v", "e", "n", "t", " ", "s", "h", "a", "l", 
       "l", " ", "l", "i", "a", "b", "i", "l", "i", "t", "y", " ", "e", "x", "c", "e", 
       "e", "d", " ", "t", "h", "e", " ", "f", "e", "e", "s", " ", "p", "a", "i", "d", 
       " ", "i", "n", " ", "t", "h", "e", " ", "p", "r", "i", "o", "r", " ", "y", "e", 
       "a", "r", ".">>
    ]

\* Q.none = 'xyz'
\* Q.law = 'What is the governing law?'
\* Q.termfee = 'termination fee'
\* Q.confparties = 'Which parties keep it confidential?'
\* Q.venue = 'venue'
\* Q.notice = 'notice period notice'
\* Q.cap = 'liability cap'
\* Q.empty = ''
\* Q.repeat = 'Ohio notice notice'
Q ==
    [
      none |->
        <<"x", "y", "z">>,
      law |->
        <<"W", "h", "a", "t", " ", "i", "s", " ", "t", "h", "e", " ", "g", "o", "v", "e", 
       "r", "n", "i", "n", "g", " ", "l", "a", "w", "?">>,
      termfee |->
        <<"t", "e", "r", "m", "i", "n", "a", "t", "i", "o", "n", " ", "f", "e", "e">>,
      confparties |->
        <<"W", "h", "i", "c", "h", " ", "p", "a", "r", "t", "i", "e", "s", " ", "k", "e", 
       "e", "p", " ", "i", "t", " ", "c", "o", "n", "f", "i", "d", "e", "n", "t", "i", 
       "a", "l", "?">>,
      venue |->
        <<"v", "e", "n", "u", "e">>,
      notice |->
        <<"n", "o", "t", "i", "c", "e", " ", "p", "e", "r", "i", "o", "d", " ", "n", "o", 
       "t", "i", "c", "e">>,
      cap |->
        <<"l", "i", "a", "b", "i", "l", "i", "t", "y", " ", "c", "a", "p">>,
      empty |->
        <<>>,
      repeat |->
        <<"O", "h", "i", "o", " ", "n", "o", "t", "i", "c", "e", " ", "n", "o", "t", "i", "c", "e">>
    ]

Range(f) == {f[x] : x \in DOMAIN f}
Texts == Range(T)
Queries == Range(Q)

(***************************************************************************)
(* ask(): _search, then mmr, then extractive_answer, one step each.        *)
(***************************************************************************)
NoAnswer == [kind |-> "none", answer |-> <<>>, citations |-> <<>>]

AnswerStep ==
    /\ pc = "answer"
    /\ ans' = extractive_answer(query, hits, MaxChars)
    /\ pc' = "done"
    /\ UNCHANGED <<auxVars, idxVars, evalVars, query, k, raw_hits, hits>>

(***************************************************************************)
(* SpecAnswer: extractive_answer on hit lists of up to MaxHits hits.  Lists *)
(* of at most ShortHits hits take any of Texts; in longer lists the first  *)
(* text is any, the second one of LongSecond, and the further hits repeat  *)
(* T.term.  The ids are s1, s2, ..., the first one possibly the empty      *)
(* string.                                                                 *)
(***************************************************************************)
MaxHits == 6
ShortHits == 2

SegId(i) == <<"s1", "s2", "s3", "s4", "s5", "s6", "s7", "s8">>[i]

HitList(n, t1, t2, id1) ==
    [i \in 1..n |-> <<IF i = 1 THEN id1 ELSE SegId(i), 0,
                      IF i = 1 THEN t1 ELSE IF i = 2 THEN t2 ELSE T.term>>]

LongSecond == {T.term, T.pay}

HitLists ==
    {HitList(n, t1, t2, id1) : n \in 0..ShortHits, t1 \in Texts, t2 \in Texts,
                               id1 \in {"s1", ""}}
    \cup
    {HitList(n, t1, t2, "s1") : n \in (ShortHits + 1)..MaxHits, t1 \in Texts,
                                t2 \in LongSecond}

\* no file at the index path
NoIndex == [type |-> "absent", ids |-> <<>>, texts |-> <<>>,
            meta |-> [engine |-> "", count |-> 0]]

IdleIdx ==
    /\ store = NoIndex /\ parsed = <<>> /\ engine = "tfidf"
    /\ sbert_ok = FALSE /\ tie_rule = "stable"
IdleEval ==
    /\ bench = <<>> /\ ds = 0 /\ item = 0 /\ rows = <<>> /\ calls = <<>>
    /\ results = <<>> /\ macro = <<>>

\* compute_ranking_metrics has not been called
NoRank == [hit |-> <<>>, recall |-> <<>>, mrr |-> <<>>, ndcg |-> <<>>, map |-> <<>>]
IdleRank == m_hits = <<>> /\ m_gold = <<>> /\ m_k = 0 /\ m_rank = NoRank
\* generative_answer is not called
NoCall == [kind |-> "none", text |-> <<>>]
IdleGen == api_key = FALSE /\ call = NoCall
\* no _search call recorded, no CSV written
IdleLate == searches = <<>> /\ csv = <<>>
IdleAux == IdleRank /\ IdleGen /\ IdleLate /\ q2 = <<>> /\ loaded = <<>>

InitAnswer ==
    /\ pc = "answer"
    /\ hits \in HitLists
    /\ query \in Queries
    /\ k = Len(hits)
    /\ raw_hits = hits
    /\ ans = NoAnswer
    /\ IdleIdx /\ IdleEval /\ IdleAux

NextAnswer == AnswerStep

SpecAnswer == InitAnswer /\ [][NextAnswer]_vars

(***************************************************************************)
(* mmr(cands, k, lambda_mult=0.75).  Relevances, cosines and MMR scores    *)
(* are exact rationals <<numerator, denominator>> with a positive          *)
(* denominator.                                                            *)
(***************************************************************************)
LambdaNum == 3
LambdaDen == 4

Less(x, y) == x[1] * y[2] < y[1] * x[2]
RatDiv(r, m) == IF m > 0 THEN <<r, m>> ELSE <<0 - r, 0 - m>>

RECURSIVE SumOver(_, _)
SumOver(S, f) ==
    IF S = {} THEN 0
    ELSE f[Least(S)] + SumOver(S \ {Least(S)}, f)

\* vec(text): the tokens of text.lower().split() and their counts
Toks(text) == Split(Lower(text))
Count(toks, w) == Cardinality({i \in 1..Len(toks) : toks[i] = w})

\* (a*b).sum() of the dense count vectors of two token lists
Dot(a, b) == SumOver(1..Len(a), [i \in 1..Len(a) |-> Count(b, a[i])])

\* np.sqrt of a squared norm; the texts of the model have integer norms
ISqrt(n) == CHOOSE r \in 0..n : r * r = n

CosOf(num, da, db) == IF da = 0 \/ db = 0 THEN <<0, 1>> ELSE <<num, da * db>>
\* num = 0 gives 0.0 whatever the norms are: no root is taken then
CosNum(num, a, b) ==
    IF num = 0 THEN <<0, 1>> ELSE CosOf(num, ISqrt(Dot(a, a)), ISqrt(Dot(b, b)))
cos(a, b) == CosNum(Dot(a, b), a, b)

\* a max() that keeps the last of the equal greatest keys
LastMax(S, key) ==
    CHOOSE j \in S : \A o \in S : ~Less(key[j], key[o]) /\ (o > j => Less(key[o], key[j]))

\* max(S, key=...): the first element of S, in index order, with the greatest
\* key
FirstMax(S, key) ==
    CHOOSE j \in S : \A o \in S : ~Less(key[j], key[o]) /\ (o < j => Less(key[o], key[j]))
MaxBy(S, key) == FirstMax(S, Listed(key))

\* m = max(rel) or 1.0 ; rel = [r / m for r in rel]
MaxRel(cands) == Greatest({cands[i][2] : i \in 1..Len(cands)})
RelNorm(m) == IF m = 0 THEN 1 ELSE m
Rel(cands) == [j \in 1..Len(cands) |-> RatDiv(cands[j][2], RelNorm(MaxRel(cands)))]

\* max(cos(dense[j], dense[i]) for i in selected)
MaxSim(cands, j, selected) ==
    LET sims == [i \in 1..Len(selected) |->
                    cos(Toks(cands[j][3]), Toks(cands[selected[i]][3]))]
    IN  sims[MaxBy(1..Len(selected), sims)]

\* lambda_mult * rel - (1 - lambda_mult) * max_sim
Mix(rel, sim) ==
    <<LambdaNum * rel[1] * sim[2] - (LambdaDen - LambdaNum) * sim[1] * rel[2],
      LambdaDen * rel[2] * sim[2]>>
mmr_score(cands, j, selected) == Mix(Rel(cands)[j], MaxSim(cands, j, selected))

\* the candidate taken next: by relevance first, by MMR score afterwards
Best(cands, selected, remaining) ==
    IF selected = <<>> THEN MaxBy(remaining, Rel(cands))
    ELSE MaxBy(remaining, [j \in 1..Len(cands) |->
                              IF j \in remaining THEN mmr_score(cands, j, selected)
                              ELSE <<0, 1>>])

RECURSIVE Select(_, _, _, _), Take(_, _, _, _, _)
Select(cands, kk, selected, remaining) ==
    IF remaining = {} \/ Len(selected) >= kk THEN selected
    ELSE Take(cands, kk, selected, remaining, Best(cands, selected, remaining))

Take(cands, kk, selected, remaining, i) ==
    Select(cands, kk, Append(selected, i), remaining \ {i})

Picked(cands, selected) == [n \in 1..Len(selected) |-> cands[selected[n]]]

\* max(rel) of an empty candidate list raises ValueError
MmrRaises(cands, kk) == Len(cands) > kk /\ cands = <<>>

\* the selection loop, also run on pools of at most k candidates
SelectAlways(cands, kk) == Picked(cands, Select(cands, kk, <<>>, 1..Len(cands)))

mmr(cands, kk) ==
    IF Len(cands) <= kk THEN cands
    ELSE Picked(cands, Select(cands, kk, <<>>, 1..Len(cands)))

\* ask(): hits = mmr(raw_hits, k=k, lambda_mult=lambda_mmr)
MmrStep ==
    /\ pc = "mmr"
    /\ IF MmrRaises(raw_hits, k)
       THEN pc' = "raised" /\ hits' = <<>>
       ELSE pc' = "diversified" /\ hits' = mmr(raw_hits, k)
    /\ UNCHANGED <<auxVars, idxVars, evalVars, query, k, raw_hits, ans>>

(***************************************************************************)
(* SpecMMR: mmr on candidate pools of up to MaxPool + 1 candidates.  The   *)
(* second candidate may repeat the id of the first (an index can hold the  *)
(* same id twice); pools of MaxPool + 1 candidates end with a candidate    *)
(* whose text is fixed.                                                    *)
(***************************************************************************)
MaxPool == 2
MaxK == 3

Scores == {0 - 2, 0 - 1, 0, 1}
MmrTexts == {<<"x">>, <<"Y", " ", "y">>, <<"x", " ", "y", " ", "z", " ", "w">>}

Cand(ids) == {<<id, s, t>> : id \in ids, s \in Scores, t \in MmrTexts}

RECURSIVE PoolsOf(_)
PoolsOf(n) ==
    IF n = 0 THEN {<<>>}
    ELSE {Append(p, c) : p \in PoolsOf(n - 1),
                         c \in Cand(IF n = 2 THEN {SegId(n), SegId(1)} ELSE {SegId(n)})}

Pools ==
    UNION {PoolsOf(n) : n \in 0..MaxPool}
    \cup {Append(p, <<SegId(MaxPool + 1), s, <<"x", " ", "y", " ", "z", " ", "w">>>>) :
             p \in PoolsOf(MaxPool), s \in Scores}

InitMMR ==
    /\ pc = "mmr"
    /\ raw_hits \in Pools
    /\ k \in (0 - 1)..MaxK
    /\ hits = <<>>
    /\ query = <<>>
    /\ ans = NoAnswer
    /\ IdleIdx /\ IdleEval /\ IdleAux

NextMMR == MmrStep

SpecMMR == InitMMR /\ [][NextMMR]_vars

(***************************************************************************)
(* build_index and _search.  A parsed item is a JSON object: with a        *)
(* "full_text" key, or with "id" and "text" keys (a segment), or neither.  *)
(* A JSON id is <<"int", n>> or <<"str", s>>.                              *)
(*                                                                         *)
(* The vocabulary is the one TfidfVectorizer is configured to learn: the   *)
(* runs of one to three tokens that occur in at most 95% of the segments;  *)
(* fit_transform raises when it is empty.  The similarity of a query and a *)
(* segment, a cosine of tf-idf vectors or of sentence embeddings in the    *)
(* program, is the number of terms they share: it is zero exactly when the *)
(* tf-idf cosine is, and equal for equal texts.                            *)
(***************************************************************************)
TopN == 50

DigitStr == <<"0", "1", "2", "3", "4", "5", "6", "7", "8", "9">>

\* str(n) for an integer n >= 0
RECURSIVE IntStr(_)
IntStr(n) == IF n < 10 THEN DigitStr[n + 1]
             ELSE IntStr(n \div 10) \o DigitStr[(n % 10) + 1]

\* str(it["id"])
StrOf(id) == IF id[1] = "int" THEN IntStr(id[2]) ELSE id[2]

\* normalize_space: re.sub(r"\s+", " ", s).strip()
normalize_space(s) == Join(Split(s), <<" ">>)

IsSegment(it) == ~it.full_text /\ it.has_id /\ it.has_text
Segment(it) == [id |-> StrOf(it.id), text |-> normalize_space(it.text)]

\* load_parsed: the segments of the items, in order
RECURSIVE Segments(_)
Segments(items) ==
    IF items = <<>> THEN <<>>
    ELSE (IF IsSegment(Head(items)) THEN <<Segment(Head(items))>> ELSE <<>>)
         \o Segments(Tail(items))

\* token_pattern=r"(?u)\b[\w\-]{2,}\b", lowercase=True
PatToken == <<WordB, Rep(Cls(AlnumChars \cup {"_", "-"}), 2, Unbounded), WordB>>
Tokens(s) == FindAll(PatToken, Lower(s), 0)

\* ngram_range=(1,3): the runs of one to three consecutive tokens
NGrams(toks) ==
    {SubSeq(toks, i, j) : <<i, j>> \in {p \in (1..Len(toks)) \X (1..Len(toks)) :
                                          p[2] >= p[1] /\ p[2] - p[1] < 3}}

\* max_df=0.95, min_df=1: the terms found in at most 95% of the texts
DocFreq(grams, g) == Cardinality({i \in 1..Len(grams) : g \in grams[i]})
Kept95(grams) ==
    {g \in UNION Range(grams) : 20 * DocFreq(grams, g) <= 19 * Len(grams)}
Vocabulary(texts) == Kept95([i \in 1..Len(texts) |-> NGrams(Tokens(texts[i]))])

SegTexts(segs) == [i \in 1..Len(segs) |-> segs[i].text]

\* build_index raises: no segments, an empty tf-idf vocabulary, sbert not
\* importable, or an unknown engine
\* only the check of load_parsed
OnlyEmptyCorpus(items, eng, sbert) == Segments(items) = <<>>

BuildFails(items, eng, sbert) ==
    \/ Segments(items) = <<>>
    \/ eng = "tfidf" /\ Vocabulary(SegTexts(Segments(items))) = {}
    \/ eng = "sbert" /\ ~sbert
    \/ eng \notin {"tfidf", "sbert"}

Dumped(segs, eng) ==
    [type |-> eng,
     ids |-> [i \in 1..Len(segs) |-> segs[i].id],
     texts |-> SegTexts(segs),
     meta |-> [engine |-> eng, count |-> Len(segs)]]

BuildStep ==
    /\ pc = "build"
    /\ IF BuildFails(parsed, engine, sbert_ok)
       THEN pc' = "build_failed" /\ store' = store
       ELSE pc' = "built" /\ store' = Dumped(Segments(parsed), engine)
    /\ UNCHANGED <<auxVars, parsed, engine, sbert_ok, tie_rule, askVars, evalVars>>

\* _rewrite_query: q + " " + " ".join(boosts)
BoostsLaw ==
    <<<<"\"", "g", "o", "v", "e", "r", "n", "i", "n", "g", " ", "l", "a", "w", "\"">>, <<"c", "o", "n", "s", "t", "r", "u", "e", "d">>, <<"e", "n", "f", "o", "r", "c", "e", "d">>, <<"l", "a", "w", "s", " ", "o", "f">>,
      <<"s", "t", "a", "t", "e", " ", "o", "f">>>>
BoostsTermination ==
    <<<<"t", "e", "r", "m", "i", "n", "a", "t", "i", "o", "n">>, <<"n", "o", "t", "i", "c", "e">>, <<"\"", "p", "r", "i", "o", "r", " ", "w", "r", "i", "t", "t", "e", "n", " ", "n", "o", "t", "i", "c", "e", "\"">>, <<"i", "n", "s", "o", "l", "v", "e", "n", "t">>,
      <<"m", "u", "t", "u", "a", "l", " ", "w", "r", "i", "t", "t", "e", "n", " ", "a", "g", "r", "e", "e", "m", "e", "n", "t">>>>
BoostsPayment ==
    <<<<"p", "a", "y", "m", "e", "n", "t">>, <<"p", "a", "s", "s", "-", "t", "h", "r", "o", "u", "g", "h">>, <<"m", "o", "n", "t", "h", "l", "y">>, <<"c", "h", "a", "r", "g", "e">>, <<"s", "e", "t", "t", "l", "e">>,
      <<"n", "e", "t", " ", "b", "a", "s", "i", "s">>, <<"i", "n", "v", "o", "i", "c", "e">>, <<"d", "u", "e", " ", "d", "a", "t", "e">>, <<"l", "a", "t", "e", " ", "f", "e", "e">>>>
BoostsParties ==
    <<<<"b", "y", " ", "a", "n", "d", " ", "a", "m", "o", "n", "g">>, <<"b", "e", "t", "w", "e", "e", "n">>, <<"a", "f", "f", "i", "l", "i", "a", "t", "e">>, <<"s", "e", "r", "v", "i", "c", "e", " ", "p", "r", "o", "v", "i", "d", "e", "r">>,
      <<"s", "e", "r", "v", "i", "c", "e", " ", "r", "e", "c", "i", "p", "i", "e", "n", "t">>>>

When(cond, boosts) == IF cond THEN boosts ELSE <<>>
Boosts(ql) ==
    When(TrigGoverningLaw(ql), BoostsLaw)
    \o When(TrigTermination(ql), BoostsTermination)
    \o When(AnyIn(ql, {<<"p", "a", "y", "m", "e", "n", "t">>, <<"f", "e", "e">>, <<"f", "e", "e", "s">>, <<"c", "h", "a", "r", "g", "e", "s">>, <<"s", "e", "t", "t", "l", "e">>,
                       <<"c", "o", "m", "p", "e", "n", "s", "a", "t", "i", "o", "n">>, <<"c", "o", "n", "s", "i", "d", "e", "r", "a", "t", "i", "o", "n">>, <<"r", "e", "m", "u", "n", "e", "r", "a", "t", "i", "o", "n">>}),
            BoostsPayment)
    \o When(AnyIn(ql, {<<"p", "a", "r", "t", "i", "e", "s">>, <<"r", "o", "l", "e", "s">>}), BoostsParties)

_rewrite_query(q) == q \o <<" ">> \o Join(Boosts(Lower(q)), <<" ">>)

\* the terms the engine compares: the vocabulary for tfidf, any for sbert
Shared(vocab, all, qgrams, text) ==
    Cardinality({g \in NGrams(Tokens(text)) \cap qgrams : all \/ g \in vocab})
SimsOver(texts, vocab, all, qgrams) ==
    [i \in 1..Len(texts) |-> Shared(vocab, all, qgrams, texts[i])]
Sims(idx, q) ==
    IF idx.type = "tfidf"
    THEN SimsOver(idx.texts, Vocabulary(idx.texts), FALSE, NGrams(Tokens(q)))
    ELSE SimsOver(idx.texts, {}, TRUE, NGrams(Tokens(q)))

\* sims.argsort() without the reversal
Ascending(sims, tie, j, i) ==
    \/ sims[j] < sims[i]
    \/ sims[j] = sims[i] /\ (IF tie = "stable" THEN j < i ELSE j > i)

\* sims.argsort()[::-1]: whether segment j comes before segment i.  Equal
\* scores come out of argsort in index order if the sort is stable, and
\* the reversal then puts the later segment first.
Before(sims, tie, j, i) ==
    \/ sims[j] > sims[i]
    \/ sims[j] = sims[i] /\ (IF tie = "stable" THEN j > i ELSE j < i)

Order(sims, tie) ==
    [p \in 1..Len(sims) |->
        CHOOSE i \in 1..Len(sims) :
            Cardinality({j \in 1..Len(sims) : Before(sims, tie, j, i)}) = p - 1]

Max(a, b) == IF a > b THEN a ELSE b
Min(a, b) == IF a < b THEN a ELSE b

\* the size of the candidate pool: topn = 50, or max(k, 50) for sbert
PoolSize(type, kk) == IF type = "tfidf" THEN TopN ELSE Max(kk, TopN)

HitsOf(idx, sims, order) ==
    [p \in 1..Len(order) |-> <<idx.ids[order[p]], sims[order[p]], idx.texts[order[p]]>>]
Ranked(idx, sims, kk, tie) ==
    HitsOf(idx, sims, FirstN(Order(sims, tie), PoolSize(idx.type, kk)))

_search(idx, q, kk, tie) == Ranked(idx, Sims(idx, _rewrite_query(q)), kk, tie)

\* ask(): idx = load(idx_path); raw_hits = _search(idx, query, k)
SearchStep ==
    /\ pc = "built"
    /\ q2' = _rewrite_query(query)
    /\ raw_hits' = _search(store, query, k, tie_rule)
    /\ pc' = "searched"
    /\ UNCHANGED <<moreVars, idxVars, evalVars, query, k, hits, ans>>

(***************************************************************************)
(* SpecIndex: build_index on a parsed document, then one _search.  The     *)
(* documents are the lists of up to MaxSegs items and the documents of     *)
(* TopN - 1 to TopN + MaxOver segments with integer ids.                   *)
(***************************************************************************)
MaxSegs == 2
MaxOver == 1

SegItem(id, text) ==
    [full_text |-> FALSE, has_id |-> TRUE, has_text |-> TRUE, id |-> id, text |-> text]
\* {"full_text": ..., "id": ..., "text": ...}: not a segment
FullTextItem ==
    [full_text |-> TRUE, has_id |-> TRUE, has_text |-> TRUE, id |-> <<"int", 9>>,
     text |-> <<"l", "a", "w">>]
\* {"id": ...}: not a segment
NoTextItem ==
    [full_text |-> FALSE, has_id |-> TRUE, has_text |-> FALSE, id |-> <<"int", 8>>,
     text |-> <<>>]

\* {"id": "s3", "text": ""}: a segment without any token
EmptyItem == SegItem(<<"str", "s3">>, <<>>)

JsonIds == {<<"int", 1>>, <<"str", "1">>, <<"str", "s2">>}
IdxTexts == {<<"G", "o", "v", "e", "r", "n", "i", "n", "g", " ", " ", "l", "a", "w">>, <<"n", "o", "t", "i", "c", "e", " ", "p", "e", "r", "i", "o", "d", " ">>}
Items ==
    {SegItem(id, t) : id \in JsonIds, t \in IdxTexts}
    \cup {EmptyItem, FullTextItem, NoTextItem}

RECURSIVE Documents(_)
Documents(n) ==
    IF n = 0 THEN {<<>>}
    ELSE {Append(d, it) : d \in Documents(n - 1), it \in Items}

BigDocument(n) ==
    [i \in 1..n |-> SegItem(<<"int", i>>,
                            IF i % 3 = 0 THEN <<"g", "o", "v", "e", "r", "n", "i", "n", "g", " ", "l", "a", "w">>
                            ELSE <<"n", "o", "t", "i", "c", "e", " ", "p", "e", "r", "i", "o", "d">>)]

Parsed ==
    UNION {Documents(n) : n \in 0..MaxSegs}
    \cup {BigDocument(n) : n \in (TopN - 1)..(TopN + MaxOver)}

Engines == {"tfidf", "sbert", "bm25"}
IdxQueries == {<<"l", "a", "w">>, <<"z", "e", "t", "a">>}
IdxKs == {0 - 1, 1, TopN, TopN + 1}

InitIndex ==
    /\ pc = "build"
    /\ store = NoIndex
    /\ parsed \in Parsed
    /\ engine \in Engines
    /\ sbert_ok \in BOOLEAN
    /\ tie_rule \in {"stable", "reversed"}
    /\ query \in IdxQueries
    /\ k \in IdxKs
    /\ raw_hits = <<>>
    /\ hits = <<>>
    /\ ans = NoAnswer
    /\ IdleEval /\ IdleAux

NextIndex == BuildStep \/ SearchStep

SpecIndex == InitIndex /\ [][NextIndex]_vars

(***************************************************************************)
(* metrics_rag.py: main() on a suite.  For each dataset load_bench reads   *)
(* the bench and eval_dataset evaluates its items, one run_ask call each;  *)
(* then the macro average is taken.  A metric is a one-element tuple, in   *)
(* thousandths (latencies in hundredths of a millisecond), or the empty    *)
(* tuple for "" and for None.                                              *)
(***************************************************************************)
DefaultK == 8

Empty == <<>>
None == <<>>

\* round(num/den): the nearest integer; when num/den lies halfway between
\* two integers the float that stands for it may round either way
Abs(x) == IF x < 0 THEN 0 - x ELSE x
Rounds(num, den) ==
    {r \in {num \div den, (num \div den) + 1} : 2 * Abs(den * r - num) <= den}
Round3(x) == Rounds(1000 * x[1], x[2])

\* load_bench: every item must have "q"; a missing "k" becomes 8
BenchRaises(data) == \E i \in 1..Len(data) : ~data[i].has_q
WithK(it) == IF it.k[1] = "absent" THEN [it EXCEPT !.k = <<"int", DefaultK>>] ELSE it
load_bench(data) == [i \in 1..Len(data) |-> WithK(data[i])]

\* k = int(b.get("k", 8)) raises unless the value converts to an integer
KRaises(b) == b.k[1] # "int"
\* re.compile(gold_regex) raises on a pattern that is not a regular expression
RegexRaises(b) == ~b.ids_mode /\ ~b.regex_ok

\* run_ask: (None, {"error": ...}) after a non-zero exit or an output that is
\* not JSON, and otherwise (out, None).  Of out: the ids of out["hits"],
\* timings_ms.total, and whether the item's gold_regex is found in the answer.
Failed(msg) == [ok |-> FALSE, error |-> msg, hits |-> <<>>, total |-> 0, found |-> FALSE]
Asked(hs, total, found) ==
    [ok |-> TRUE, error |-> "", hits |-> hs, total |-> total, found |-> found]

\* what the calls of the model return
Outcomes ==
    {Failed("Traceback"), Failed(""), Failed("bad_json"), Asked(<<>>, 1000, FALSE),
     Asked(<<"s2", "s1">>, 2505, TRUE)}

\* compute_ranking_metrics, as exact fractions <<numerator, denominator>>
Zero == <<0, 1>>
\* hits[:n]
PyFirst(s, n) == IF n >= 0 THEN FirstN(s, n) ELSE FirstN(s, Max(0, Len(s) + n))
\* K = min(k_eval or len(hits), len(hits))
KOf(n, k_eval) == Min(IF k_eval = 0 THEN n ELSE k_eval, n)
RelFlags(top, rel_set) ==
    Listed([i \in 1..Len(top) |-> IF top[i] \in rel_set THEN 1 ELSE 0])
Ones(flags) == {i \in 1..Len(flags) : flags[i] = 1}
\* len(rel_set), without the floor of 1
RelCount(rel_set) == Cardinality(rel_set)
\* total_rel = max(1, len(rel_set))
TotalRel(rel_set) == Max(1, Cardinality(rel_set))
MRR(ones) == IF ones = {} THEN Zero ELSE <<1, Least(ones)>>

\* 1 / math.log2(i + 1) for i = 1, 2, 3, 4, in millionths
Discount == <<1000000, 630930, 500000, 430677>>
DCG(ones) == SumOver(ones, Discount)
\* the dcg of one more set flag than there are
IdealPlusOne(ones) == SumOver(1..(Cardinality(ones) + 1), Discount)
\* dcg of the flags sorted in descending order
IDCG(ones) == SumOver(1..Cardinality(ones), Discount)
nDCG(ones) == IF ones = {} THEN Zero ELSE <<DCG(ones), IDCG(ones)>>

\* the sum of the precisions, not divided by total_rel
PrecisionSum(ones, total_rel) ==
    <<SumOver(ones, [i \in 1..4 |->
                        Cardinality({j \in ones : j <= i}) * (12 \div i)]),
      12>>

\* sum of rel_seen / i over the set flags, over total_rel; 12 is a common
\* multiple of the ranks 1, 2, 3, 4
AP(ones, total_rel) ==
    <<SumOver(ones, [i \in 1..4 |->
                        Cardinality({j \in ones : j <= i}) * (12 \div i)]),
      12 * total_rel>>

RankOf(ones, total_rel) ==
    [hit |-> IF ones = {} THEN Zero ELSE <<1, 1>>,
     recall |-> <<Cardinality(ones), total_rel>>,
     mrr |-> MRR(ones),
     ndcg |-> nDCG(ones),
     map |-> AP(ones, total_rel)]

compute_ranking_metrics(hs, gold_ids, k_eval) ==
    IF hs = <<>>
    THEN [hit |-> Zero, recall |-> Zero, mrr |-> Zero, ndcg |-> Zero, map |-> Zero]
    ELSE RankOf(Ones(RelFlags(PyFirst(hs, KOf(Len(hs), k_eval)), Range(gold_ids))),
                TotalRel(Range(gold_ids)))

\* the ids of the index segments in which the item's gold_regex is found
MatchingSegs == {"s1"}
\* hit_at_k_regex, p_at_1_regex and exact_match_regex give 0 or 1
Flag(b) == IF b THEN 1000 ELSE 0
hit_at_k_regex(hs) == Flag(\E i \in 1..Len(hs) : hs[i] \in MatchingSegs)
p_at_1_regex(hs) == Flag(hs # <<>> /\ hs[1] \in MatchingSegs)

\* the rows eval_dataset appends
ErrRow(q, msg) ==
    [q |-> q, status |-> "ERR", latency_ms |-> Empty, hit |-> Empty, recall |-> Empty,
     mrr |-> Empty, ndcg |-> Empty, map |-> Empty, em |-> Empty, f1 |-> Empty,
     p1 |-> Empty, err |-> msg]

\* gold_ids mode without gold_answers: each metric is round(rank[...], 3)
IdsRows(q, total, rank) ==
    {[q |-> q, status |-> "OK", latency_ms |-> <<total>>, hit |-> <<h>>,
      recall |-> <<r>>, mrr |-> <<m>>, ndcg |-> <<n>>, map |-> <<a>>, em |-> Empty,
      f1 |-> Empty, p1 |-> Empty, err |-> ""] :
        h \in Round3(rank.hit), r \in Round3(rank.recall), m \in Round3(rank.mrr),
        n \in Round3(rank.ndcg), a \in Round3(rank.map)}

\* gold_regex mode
RegexRow(q, out) ==
    [q |-> q, status |-> "OK", latency_ms |-> <<out.total>>,
     hit |-> <<hit_at_k_regex(out.hits)>>, recall |-> Empty, mrr |-> Empty,
     ndcg |-> Empty, map |-> Empty, em |-> <<Flag(out.found)>>, f1 |-> Empty,
     p1 |-> <<p_at_1_regex(out.hits)>>, err |-> ""]

OkRows(b, out) ==
    IF b.ids_mode
    THEN IdsRows(b.q, out.total, compute_ranking_metrics(out.hits, b.gold_ids, b.k[2]))
    ELSE {RegexRow(b.q, out)}

RowsFor(b, out) == IF out.ok THEN OkRows(b, out) ELSE {ErrRow(b.q, out.error)}

\* the aggregate of a dataset: means over the OK rows that carry a value
\* a row of any status
AnyStatus(r) == TRUE
IsOk(r) == r.status = "OK"
Carrying(rs, key) == {i \in 1..Len(rs) : rs[i][key] # <<>>}
Total(rs, key, S) == SumOver(S, [i \in 1..Len(rs) |-> IF i \in S THEN rs[i][key][1] ELSE 0])
MeanAt(rs, key, S, scale) ==
    IF S = {} THEN {None}
    ELSE {<<m>> : m \in Rounds(scale * Total(rs, key, S), Cardinality(S))}
mean_of(oks, key) == MeanAt(oks, key, Carrying(oks, key), 1)

Aggs(rs, oks, name) ==
    {[queries |-> Len(rs), ok |-> Len(oks), avg_latency_ms |-> l, Hit |-> h,
      Recall |-> r, MRR |-> m, nDCG |-> n, MAP |-> a, EM |-> e, F1 |-> f,
      dataset |-> name] :
        l \in mean_of(oks, "latency_ms"), h \in mean_of(oks, "hit"),
        r \in mean_of(oks, "recall"), m \in mean_of(oks, "mrr"),
        n \in mean_of(oks, "ndcg"), a \in mean_of(oks, "map"),
        e \in mean_of(oks, "em"), f \in mean_of(oks, "f1")}

\* the pooled mean: every dataset weighted by its number of queries
PooledOf(rs, key, scale) ==
    LET S == Carrying(rs, key)
        w == SumOver(S, [i \in 1..Len(rs) |-> rs[i].queries])
    IN  IF S = {} \/ w = 0 THEN {None}
        ELSE {<<m>> : m \in Rounds(scale * SumOver(S, [i \in 1..Len(rs) |->
                                       IF i \in S THEN rs[i][key][1] * rs[i].queries
                                       ELSE 0]), w)}

\* macro[k] = round(sum(vals)/len(vals), 3) over the datasets whose aggregate
\* is not None
MacroOf(rs, key, scale) == MeanAt(rs, key, Carrying(rs, key), scale)

Macros(rs) ==
    {[datasets |-> Len(rs),
      queries_total |-> SumOver(1..Len(rs), [i \in 1..Len(rs) |-> rs[i].queries]),
      avg_latency_ms |-> l, Hit |-> h, Recall |-> r, MRR |-> m, nDCG |-> n, MAP |-> a,
      EM |-> e, F1 |-> f] :
        l \in MacroOf(rs, "avg_latency_ms", 10), h \in MacroOf(rs, "Hit", 1),
        r \in MacroOf(rs, "Recall", 1), m \in MacroOf(rs, "MRR", 1),
        n \in MacroOf(rs, "nDCG", 1), a \in MacroOf(rs, "MAP", 1),
        e \in MacroOf(rs, "EM", 1), f \in MacroOf(rs, "F1", 1)}

\* an exception leaves main(): nothing more is evaluated or written
Abort == pc' = "aborted" /\ UNCHANGED <<bench, ds, item, rows, calls, results, macro>>

\* main(): the next dataset of the suite; bench_items = load_bench(...)
LoadBench ==
    /\ pc = "load"
    /\ ds' = ds + 1
    /\ item' = 0 /\ rows' = <<>> /\ calls' = <<>>
    /\ pc' = IF BenchRaises(bench[ds + 1]) THEN "aborted" ELSE "eval"
    /\ UNCHANGED <<auxVars, idxVars, askVars, bench, results, macro>>

Append2(b, out, row) ==
    /\ rows' = Append(rows, row)
    /\ calls' = Append(calls, out)
    /\ item' = item + 1
    /\ pc' = pc
    /\ UNCHANGED <<bench, ds, results, macro>>

\* eval_dataset: one turn of the loop over bench_items
EvalOne(b) ==
    IF KRaises(b) THEN Abort
    ELSE \E out \in Outcomes :
            IF out.ok /\ RegexRaises(b)
            THEN /\ pc' = "aborted"
                 /\ calls' = Append(calls, out)
                 /\ UNCHANGED <<bench, ds, item, rows, results, macro>>
            ELSE \E row \in RowsFor(b, out) : Append2(b, out, row)

EvalItem ==
    /\ pc = "eval"
    /\ item < Len(bench[ds])
    /\ EvalOne(load_bench(bench[ds])[item + 1])
    /\ UNCHANGED <<auxVars, idxVars, askVars>>

\* the CSV of a dataset: fields, and w.writerow({k: r.get(k, "") for k in
\* fields}) for each row
CsvFields ==
    <<"q", "status", "latency_ms", "hit", "recall", "mrr", "ndcg", "map", "em", "f1", "err">>
WriteRow(r) == [name \in {CsvFields[i] : i \in 1..Len(CsvFields)} |-> r[name]]
WriteCsv(rs) == [header |-> CsvFields, lines |-> [i \in 1..Len(rs) |-> WriteRow(rs[i])]]

\* eval_dataset after the loop: the CSV and the aggregate; main():
\* results.append(agg)
FinishDataset ==
    /\ pc = "eval"
    /\ item = Len(bench[ds])
    /\ csv' = WriteCsv(rows)
    /\ \E agg \in Aggs(rows, SelectSeq(rows, IsOk), ds) : results' = Append(results, agg)
    /\ pc' = IF ds < Len(bench) THEN "load" ELSE "macro"
    /\ UNCHANGED <<rankVars, loaded, genVars, searches, q2, idxVars, askVars, bench, ds,
                   item, rows, calls, macro>>

\* main(): the suite-level macro average
MacroStep ==
    /\ pc = "macro"
    /\ macro' \in Macros(results)
    /\ pc' = "done"
    /\ UNCHANGED <<auxVars, idxVars, askVars, bench, ds, item, rows, calls, results>>

(***************************************************************************)
(* SpecEval: main() on the suites of up to MaxDatasets datasets that hold  *)
(* up to MaxItems bench items in total.                                    *)
(***************************************************************************)
MaxItems == 3
MaxDatasets == 2

BenchItem(q, has_q, kk, ids_mode, gold_ids, regex_ok) ==
    [q |-> q, has_q |-> has_q, k |-> kk, ids_mode |-> ids_mode, gold_ids |-> gold_ids,
     regex_ok |-> regex_ok]
\* {"q": ..., "gold_ids": ["s1"]}
ItemIds == BenchItem("q1", TRUE, <<"absent", 0>>, TRUE, <<"s1">>, TRUE)
\* {"q": ..., "k": 1, "gold_regex": "law"}
ItemRegex == BenchItem("q2", TRUE, <<"int", 1>>, FALSE, <<>>, TRUE)
\* {"gold_ids": ["s1"]}
ItemNoQ == BenchItem("", FALSE, <<"absent", 0>>, TRUE, <<"s1">>, TRUE)
\* {"q": ..., "k": "many", "gold_ids": ["s1"]}
ItemBadK == BenchItem("q4", TRUE, <<"str", 0>>, TRUE, <<"s1">>, TRUE)
\* {"q": ..., "gold_regex": "("}
ItemBadRegex == BenchItem("q5", TRUE, <<"absent", 0>>, FALSE, <<>>, FALSE)
ItemKinds == {ItemIds, ItemRegex, ItemNoQ, ItemBadK, ItemBadRegex}

RECURSIVE BenchesOf(_)
BenchesOf(n) ==
    IF n = 0 THEN {<<>>}
    ELSE {Append(b, it) : b \in BenchesOf(n - 1), it \in ItemKinds}

\* the suites of d datasets with at most n items in total
RECURSIVE SuitesOf(_, _)
SuitesOf(d, n) ==
    IF d = 0 THEN {<<>>}
    ELSE UNION {{<<b>> \o s : s \in SuitesOf(d - 1, n - Len(b))} :
                   b \in UNION {BenchesOf(m) : m \in 0..n}}

Suites == UNION {SuitesOf(d, MaxItems) : d \in 0..MaxDatasets}

InitEval ==
    /\ bench \in Suites
    /\ pc = IF bench = <<>> THEN "macro" ELSE "load"
    /\ ds = 0 /\ item = 0 /\ rows = <<>> /\ calls = <<>>
    /\ results = <<>> /\ macro = <<>>
    /\ query = <<>> /\ k = 0 /\ raw_hits = <<>> /\ hits = <<>> /\ ans = NoAnswer
    /\ IdleIdx /\ IdleAux

NextEval == LoadBench \/ EvalItem \/ FinishDataset \/ MacroStep

SpecEval == InitEval /\ [][NextEval]_vars


(***************************************************************************)
(* SpecRank: compute_ranking_metrics on the hit lists of up to MaxRank     *)
(* hits, whose ids are drawn from RankIds, for the gold lists of GoldLists *)
(* and k_eval from -1 to MaxRank + 1 (0 stands for None: `k_eval or        *)
(* len(hits)` treats both alike).                                          *)
(***************************************************************************)
MaxRank == 3

RankIds == {"s1", "s2", "s3"}
RECURSIVE IdLists(_)
IdLists(n) ==
    IF n = 0 THEN {<<>>}
    ELSE IdLists(n - 1) \cup {Append(l, id) : l \in IdLists(n - 1), id \in RankIds}
GoldLists == {<<>>, <<"s1">>, <<"s2">>, <<"s1", "s2">>, <<"s9">>}

RankStep ==
    /\ pc = "rank"
    /\ m_rank' = compute_ranking_metrics(m_hits, m_gold, m_k)
    /\ pc' = "ranked"
    /\ UNCHANGED <<idxVars, askVars, evalVars, genVars, lateVars, q2, loaded, m_hits, m_gold,
                   m_k>>

InitRank ==
    /\ pc = "rank"
    /\ m_hits \in IdLists(MaxRank)
    /\ m_gold \in GoldLists
    /\ m_k \in (0 - 1)..(MaxRank + 1)
    /\ m_rank = NoRank
    /\ query = <<>> /\ k = 0 /\ q2 = <<>> /\ raw_hits = <<>> /\ hits = <<>> /\ ans = NoAnswer
    /\ loaded = <<>> /\ IdleGen /\ IdleLate
    /\ IdleIdx /\ IdleEval

NextRank == RankStep

SpecRank == InitRank /\ [][NextRank]_vars


(***************************************************************************)
(* SpecRebuild: build_index writing the blob at a path that may hold an    *)
(* index already, while asks load that path.  joblib's dump(value, path)   *)
(* opens the path for writing, which truncates the file, and pickles into  *)
(* it; the file holds the new index once dump has returned.  Everything    *)
(* build_index can raise is raised before dump is called.  A load that     *)
(* reads the file between the two steps gets a truncated pickle.           *)
(***************************************************************************)
MaxLoads == 2

\* the index a previous build left at the path
PreviousIndex ==
    Dumped(Segments(<<SegItem(<<"str", "s2">>, <<"n", "o", "t", "i", "c", "e", " ", "p", "e", "r", "i", "o", "d">>),
                      SegItem(<<"int", 7>>, <<"G", "o", "v", "e", "r", "n", "i", "n", "g", " ", "l", "a", "w">>)>>), "tfidf")

\* the file while dump is writing it
Truncated == [type |-> "truncated", ids |-> <<>>, texts |-> <<>>,
              meta |-> [engine |-> "", count |-> 0]]

\* build_index up to the point where dump has opened out_path
BuildOpen ==
    /\ pc = "build"
    /\ IF BuildFails(parsed, engine, sbert_ok)
       THEN pc' = "build_failed" /\ store' = store
       ELSE pc' = "dumping" /\ store' = Truncated
    /\ UNCHANGED <<auxVars, parsed, engine, sbert_ok, tie_rule, askVars, evalVars>>

\* dump returns: the blob is complete
BuildClose ==
    /\ pc = "dumping"
    /\ store' = Dumped(Segments(parsed), engine)
    /\ pc' = "built"
    /\ UNCHANGED <<auxVars, parsed, engine, sbert_ok, tie_rule, askVars, evalVars>>

\* ask() in another process: idx = load(idx_path)
LoadStep ==
    /\ Len(loaded) < MaxLoads
    /\ loaded' = Append(loaded, store)
    /\ UNCHANGED <<pc, idxVars, askVars, evalVars, rankVars, genVars, lateVars, q2>>

InitRebuild ==
    /\ pc = "build"
    /\ store \in {NoIndex, PreviousIndex}
    /\ parsed \in UNION {Documents(n) : n \in 0..MaxSegs}
    /\ engine \in Engines
    /\ sbert_ok \in BOOLEAN
    /\ tie_rule = "stable"
    /\ query = <<>> /\ k = 0 /\ raw_hits = <<>> /\ hits = <<>> /\ ans = NoAnswer
    /\ IdleEval /\ IdleAux

NextRebuild == BuildOpen \/ BuildClose \/ LoadStep

SpecRebuild == InitRebuild /\ [][NextRebuild]_vars


(***************************************************************************)
(* generative_answer(query, hits).  The call of the external model ends    *)
(* with a reply text, or with an exception: the client library cannot be   *)
(* imported, the request exceeds its 12 s timeout, the service answers     *)
(* with an error, or the response has no text part (resp.text raises).     *)
(***************************************************************************)
\* txt.find(c), txt.rfind(c): an offset from 0, or -1
Find(txt, c) ==
    IF \E i \in 1..Len(txt) : txt[i] = c
    THEN Least({i \in 1..Len(txt) : txt[i] = c}) - 1
    ELSE 0 - 1
RFind(txt, c) ==
    IF \E i \in 1..Len(txt) : txt[i] = c
    THEN Greatest({i \in 1..Len(txt) : txt[i] = c}) - 1
    ELSE 0 - 1

\* a JSON value that is returned as it is, whatever its keys are
Other(txt) == [kind |-> "other", answer |-> txt, citations |-> <<>>]

\* json.loads on the texts between the first "{" and the last "}" of Replies
JsonLoads(txt) ==
    IF txt = <<"{", "\"", "a", "n", "s", "w", "e", "r", "\"", ":", " ", "\"", "N", "O", "T", "_", "F", "O", "U", "N", "D", "\"", ",", " ", "\"", "c", "i", "t", "a", "t", "i", "o", "n", "s", "\"", ":", " ", "[", "]", "}">>
    THEN Returned(<<"N", "O", "T", "_", "F", "O", "U", "N", "D">>, <<>>)
    ELSE IF txt = <<"{", "\"", "a", "n", "s", "w", "e", "r", "\"", ":", " ", "\"", "O", "h", "i", "o", "\"", ",", " ", "\"", "c", "i", "t", "a", "t", "i", "o", "n", "s", "\"", ":", " ", "[", "\"", "s", "1", "\"", "]", "}">>
    THEN Returned(<<"O", "h", "i", "o">>, <<"s1">>)
    ELSE IF txt \in {<<"{", "\"", "f", "o", "o", "\"", ":", " ", "1", "}">>, <<"{", "\"", "a", "n", "s", "w", "e", "r", "\"", ":", " ", "1", "}">>}
    THEN Other(txt)
    ELSE Raised(<<"JSONDecodeError">>)

\* json.loads(txt[s:e+1]) unless there is no "{" before a "}"
Between(txt, s, e) ==
    IF s = 0 - 1 \/ e = 0 - 1 \/ e <= s THEN Returned(NOT_FOUND, <<>>)
    ELSE JsonLoads(Slice(txt, s, e + 1))

\* the exception of the call leaves the function
CallRaises(key, c) == key /\ c.kind # "text"

generative_answer(key, c) ==
    IF ~key THEN Returned(NOT_FOUND, <<>>)
    ELSE IF CallRaises(key, c) THEN Raised(<<c.kind>>)
    ELSE Between(c.text, Find(c.text, "{"), RFind(c.text, "}"))

\* ask(mode="generative"): ans = generative_answer(query, hits)
GenerateStep ==
    /\ pc = "generate"
    /\ ans' = generative_answer(api_key, call)
    /\ pc' = "generated"
    /\ UNCHANGED <<auxVars, idxVars, evalVars, query, k, raw_hits, hits>>

(***************************************************************************)
(* SpecGenerative: generative_answer for the ways the external call ends.  *)
(***************************************************************************)
Reply(txt) == [kind |-> "text", text |-> txt]
Replies ==
    {<<"{", "\"", "a", "n", "s", "w", "e", "r", "\"", ":", " ", "\"", "N", "O", "T", "_", "F", "O", "U", "N", "D", "\"", ",", " ", "\"", "c", "i", "t", "a", "t", "i", "o", "n", "s", "\"", ":", " ", "[", "]", "}">>,
     <<"S", "u", "r", "e", ":", " ", "{", "\"", "a", "n", "s", "w", "e", "r", "\"", ":", " ", "\"", "O", "h", "i", "o", "\"", ",", " ", "\"", "c", "i", "t", "a", "t", "i", "o", "n", "s", "\"", ":", " ", "[", "\"", "s", "1", "\"", "]", "}", " ", ".">>,
     <<>>,
     <<"I", " ", "d", "o", " ", "n", "o", "t", " ", "k", "n", "o", "w">>,
     <<"}", "{">>,
     <<"{", "a", "n", "s", "w", "e", "r", ":", " ", "O", "h", "i", "o", "}">>,
     <<"{", "\"", "f", "o", "o", "\"", ":", " ", "1", "}">>,
     <<"[", "{", "\"", "a", "n", "s", "w", "e", "r", "\"", ":", " ", "1", "}", "]">>,
     <<"{", "\"", "a", "\"", ":", " ", "1", "}", " ", "a", "n", "d", " ", "{", "\"", "b", "\"", ":", " ", "2", "}">>}
Calls ==
    {Reply(t) : t \in Replies}
    \cup {[kind |-> e, text |-> <<>>] :
             e \in {"ImportError", "DeadlineExceeded", "ServiceError", "ValueError"}}

InitGenerative ==
    /\ pc = "generate"
    /\ api_key \in BOOLEAN
    /\ call \in Calls
    /\ query \in Queries
    /\ hits \in {HitList(n, T.ny, T.term, "s1") : n \in 0..ShortHits}
    /\ k = Len(hits)
    /\ raw_hits = hits
    /\ ans = NoAnswer
    /\ IdleIdx /\ IdleEval /\ IdleRank /\ IdleLate /\ q2 = <<>> /\ loaded = <<>>

NextGenerative == GenerateStep

SpecGenerative == InitGenerative /\ [][NextGenerative]_vars

(***************************************************************************)
(* SpecRetrieve: one process holding a loaded index answers a series of    *)
(* _search calls.  _search reads its three arguments only: boosts is a     *)
(* local of _rewrite_query and the index object is never written, so the   *)
(* calls made before are no input of a call.                               *)
(***************************************************************************)
MaxSearches == 3

\* the queries asked before, joined to the query: a _rewrite_query whose
\* boosts list would outlive the call
RetrieveKeepingBoosts(idx, q, kk, tie, before) ==
    Ranked(idx,
           Sims(idx, _rewrite_query(
               q \o Join([i \in 1..Len(before) |-> <<" ">> \o before[i].query], <<>>))),
           kk, tie)

\* _search(idx_obj, query, k) as the n-th call of a process
Retrieve(idx, q, kk, tie, before) == _search(idx, q, kk, tie)

RetrieveQueries == {<<"l", "a", "w">>, <<"z", "e", "t", "a">>, <<"n", "o", "t", "i", "c", "e", " ", "p", "e", "r", "i", "o", "d">>}
RetrieveKs == {1, TopN + 1}

RetrieveStep ==
    /\ pc = "serving"
    /\ Len(searches) < MaxSearches
    /\ \E q \in RetrieveQueries, kk \in RetrieveKs :
        searches' = Append(searches,
            [query |-> q, k |-> kk, hits |-> Retrieve(store, q, kk, tie_rule, searches)])
    /\ UNCHANGED <<pc, idxVars, askVars, evalVars, rankVars, loaded, genVars, csv, q2>>

\* the indexes build_index dumps for the documents of two items
BuiltIndexes ==
    {Dumped(Segments(d), eng) :
        d \in {p \in Documents(2) : ~BuildFails(p, "tfidf", TRUE)},
        eng \in {"tfidf", "sbert"}}

InitRetrieve ==
    /\ pc = "serving"
    /\ store \in BuiltIndexes
    /\ parsed = <<>>
    /\ engine = store.type
    /\ sbert_ok = TRUE
    /\ tie_rule \in {"stable", "reversed"}
    /\ query = <<>>
    /\ k = 0
    /\ raw_hits = <<>>
    /\ hits = <<>>
    /\ ans = NoAnswer
    /\ IdleEval /\ IdleRank /\ IdleGen
    /\ q2 = <<>> /\ loaded = <<>> /\ searches = <<>> /\ csv = <<>>

SpecRetrieve == InitRetrieve /\ [][RetrieveStep]_vars

(***************************************************************************)
(* SpecAsk: build_index on a document, then ask(idx_path, query, k) in     *)
(* extractive mode: load, _search, mmr and extractive_answer in one call.  *)
(***************************************************************************)
AskOutcome(found, answered) ==
    IF MmrRaises(found, k) THEN <<"ask_raised", <<>>, NoAnswer>>
    ELSE IF answered.kind = "raise" THEN <<"ask_raised", mmr(found, k), answered>>
    ELSE <<"asked", mmr(found, k), answered>>

AskWith(found) ==
    AskOutcome(found,
               IF MmrRaises(found, k) THEN NoAnswer
               ELSE extractive_answer(query, mmr(found, k), MaxChars))

AskStep ==
    /\ pc = "built"
    /\ q2' = _rewrite_query(query)
    /\ raw_hits' = _search(store, query, k, tie_rule)
    /\ pc' = AskWith(raw_hits')[1]
    /\ hits' = AskWith(raw_hits')[2]
    /\ ans' = AskWith(raw_hits')[3]
    /\ UNCHANGED <<moreVars, idxVars, evalVars, query, k>>

\* the segments of the documents asked about: no two of them share a word,
\* so every cosine mmr takes is 0
AskSegs ==
    {SegItem(<<"str", "s1">>, T.ny), SegItem(<<"str", "s2">>, T.term),
     SegItem(<<"str", "s3">>, T.parties)}

Documents2(segs) == {<<a, b>> : a \in segs, b \in segs}
Documents3(segs) == {<<a, b, c>> : a \in segs, b \in segs, c \in segs}
AskDocs ==
    {d \in Documents3(AskSegs) \cup Documents2(AskSegs) :
        \A i, j \in 1..Len(d) : d[i] = d[j] => i = j}

InitAsk ==
    /\ pc = "build"
    /\ store = NoIndex
    /\ parsed \in AskDocs
    /\ engine \in {"tfidf", "sbert"}
    /\ sbert_ok \in BOOLEAN
    /\ tie_rule \in {"stable", "reversed"}
    /\ query \in {Q.law, Q.termfee, Q.none}
    /\ k \in {1, 2, DefaultK}
    /\ raw_hits = <<>>
    /\ hits = <<>>
    /\ ans = NoAnswer
    /\ IdleEval /\ IdleAux

NextAsk == BuildStep \/ AskStep

SpecAsk == InitAsk /\ [][NextAsk]_vars

(***************************************************************************)
(* SpecEnsure: runs of qa_cli.py on one index path.  Each run calls        *)
(* ensure_index(parsed_path, idx_path, engine), which builds only when no  *)
(* file is at idx_path, and then asks, which loads the file.               *)
(***************************************************************************)
\* the documents of the runs: none, or two segments
EnsureDocs ==
    {<<>>} \cup {<<SegItem(<<"str", "s1">>, a), SegItem(<<"str", "s2">>, b)>> :
                   a \in IdxTexts, b \in IdxTexts}

\* idx.exists()
Exists(idx) == idx # NoIndex

\* qa_cli.ensure_index(parsed_path, idx_path, engine)
Ensured(idx, items, eng, sbert) ==
    IF Exists(idx) THEN <<"ensured", idx>>
    ELSE IF BuildFails(items, eng, sbert) THEN <<"cli", idx>>
    ELSE <<"ensured", Dumped(Segments(items), eng)>>

ensure_index ==
    /\ pc = "cli"
    /\ Len(loaded) < MaxLoads
    /\ \E items \in EnsureDocs, eng \in {"tfidf", "sbert"} :
        /\ parsed' = items
        /\ engine' = eng
        /\ pc' = Ensured(store, items, eng, sbert_ok)[1]
        /\ store' = Ensured(store, items, eng, sbert_ok)[2]
    /\ UNCHANGED <<sbert_ok, tie_rule, askVars, evalVars, rankVars, genVars, lateVars,
                   q2, loaded>>

\* main(): ask_once -> ask(idx_path, ...): idx = load(idx_path)
AskLoad ==
    /\ pc = "ensured"
    /\ loaded' = Append(loaded, store)
    /\ pc' = "cli"
    /\ UNCHANGED <<idxVars, askVars, evalVars, rankVars, genVars, lateVars, q2>>

InitEnsure ==
    /\ pc = "cli"
    /\ store = NoIndex
    /\ parsed = <<>>
    /\ engine = "tfidf"
    /\ sbert_ok \in BOOLEAN
    /\ tie_rule = "stable"
    /\ query = <<>> /\ k = 0 /\ raw_hits = <<>> /\ hits = <<>> /\ ans = NoAnswer
    /\ IdleEval /\ IdleAux

NextEnsure == ensure_index \/ AskLoad

SpecEnsure == InitEnsure /\ [][NextEnsure]_vars
(***************************************************************************)
(* Claims about extractive_answer, checked under SpecAnswer.               *)
(***************************************************************************)
Answered == pc = "done" /\ hits # <<>>
QLower == Lower(query)
Joined == Join([i \in 1..Len(hits) |-> hits[i][3]], <<" ">>)

NoTrigger(q) ==
    ~(\/ TrigGoverningLaw(q) \/ TrigTermination(q) \/ TrigPayment(q) \/ TrigParties(q)
      \/ TrigConfidential(q) \/ TrigVenue(q) \/ TrigLiabilityCap(q))

\* no evidence sentence contains a query term
NoSharedTerm ==
    LET sents == ReSplit(PatSentenceSep, Joined, 0)
    IN  \A i \in 1..Len(sents) : TermScore(sents[i], QTerms(QLower)) = 0

Unquote(a) == Slice(a, 1, Len(a) - 1)
FirstLine(txt) == IF SplitLines(txt) = <<>> THEN <<>> ELSE SplitLines(txt)[1]

\* C2: with a non-empty hit list, a query without keyword trigger and no
\* evidence sentence sharing a term with the query, extractive_answer returns
\* (does not raise) an answer that is non-empty and is the quoted first line
\* of the top hit's text.
C2_LastResortNeverRaises ==
    (Answered /\ NoTrigger(QLower) /\ NoSharedTerm) =>
        /\ ans.kind = "ok"
        /\ ans.answer # <<>>
        /\ Unquote(ans.answer) # <<>>
        /\ Unquote(ans.answer) = Strip(FirstLine(hits[1][3]))

\* The matchers that satisfy both conditions: the keyword trigger is in the
\* query and the pattern matches the evidence.
Firing == {m \in 1..7 : Branch(m, QLower, hits, Joined, MaxChars).kind # "next"}
Earliest(S) == CHOOSE m \in S : \A o \in S : m <= o

\* C9: the answer is the one of the first matcher, in the order governing law,
\* termination, payment, parties, confidentiality, governing-venue,
\* liability-cap, whose trigger is in the query and whose pattern matches the
\* evidence; no later matcher is used and no results are combined.
C9_FirstMatcherWins ==
    (Answered /\ Firing # {}) =>
        ans = Branch(Earliest(Firing), QLower, hits, Joined, MaxChars)

\* C9 witness: termination and payment both fire, and the answer is the
\* termination matcher's, which differs from the payment matcher's.
C9_Witness ==
    /\ Answered
    /\ {2, 3} \subseteq Firing
    /\ 1 \notin Firing
    /\ ans = Branch(2, QLower, hits, Joined, MaxChars)
    /\ ans # Branch(3, QLower, hits, Joined, MaxChars)

\* The answer was packed from a span of the joined evidence: by a pattern
\* matcher (not the per-hit check of the governing-law branch) or by the
\* lexical fallback (not the last resort).
InlineLaw == TrigGoverningLaw(QLower) /\ LawSentHit(hits, 1) # 0
LastResort ==
    /\ Firing = {}
    /\ BestSentence(ReSplit(PatSentenceSep, Joined, 0), 1, QTerms(QLower), MaxChars,
                    <<>>, 0) = <<>>
SpanFromJoined == Answered /\ ans.kind = "ok" /\ ~InlineLaw /\ ~LastResort

\* C10: when the answer span comes from the joined evidence, the citations
\* are exactly the id of the first hit whose text contains the span, if there
\* is such a hit, and otherwise the ids of the first five hits.
C10_CitationAttribution ==
    (SpanFromJoined /\ Len(Joined) <= MaxChars) =>
        LET span == Unquote(ans.answer)
            with == {i \in 1..Len(hits) : Contains(hits[i][3], span)}
        IN  ans.citations = IF with # {} THEN <<hits[Earliest(with)][1]>>
                            ELSE FirstN(HitIds(hits), TopCites)


(***************************************************************************)
(* Claims about mmr, checked under SpecMMR.                                *)
(***************************************************************************)
Diversified == pc = "diversified"
NoRepeatedId(hs) == \A i, j \in 1..Len(hs) : hs[i][1] = hs[j][1] => i = j

\* C1: for every candidate pool and every k, the list returned by mmr holds
\* no id twice and its length is min(k, len(candidates)).
C1_MmrDistinctAndSized ==
    Diversified =>
        /\ NoRepeatedId(hits)
        /\ Len(hits) = Min(k, Len(raw_hits))

(***************************************************************************)
(* Claims about build_index and _search, checked under SpecIndex.          *)
(***************************************************************************)
Built == pc \in {"built", "searched"}
Searched == pc = "searched"
InputSegments == SelectSeq(parsed, IsSegment)
DistinctAt(s) == \A i, j \in 1..Len(s) : s[i] = s[j] => i = j

\* C3: a built index has as many ids as texts as input segments as
\* meta.count, its ids are those of the input segments in input order, and
\* ids that are pairwise distinct in the input are pairwise distinct in the
\* index.
C3_IndexAlignedIdsDistinct ==
    Built =>
        /\ Len(store.ids) = Len(store.texts)
        /\ Len(store.ids) = Len(InputSegments)
        /\ Len(store.ids) = store.meta.count
        /\ \A i \in 1..Len(store.ids) : store.ids[i] = StrOf(InputSegments[i].id)
        /\ DistinctAt([i \in 1..Len(InputSegments) |-> InputSegments[i].id])
               => DistinctAt(store.ids)

\* the position at which the segment of a hit was ingested
Ingested(h) == CHOOSE i \in 1..Len(store.ids) : store.ids[i] = h[1]

\* C4: the candidates of a search come in descending score order, and of two
\* segments with the same score the one ingested earlier comes first.
C4_DescendingTiesByIngestion ==
    (Searched /\ DistinctAt(store.ids)) =>
        \A p, q \in 1..Len(raw_hits) :
            p < q =>
                \/ raw_hits[p][2] > raw_hits[q][2]
                \/ /\ raw_hits[p][2] = raw_hits[q][2]
                   /\ Ingested(raw_hits[p]) < Ingested(raw_hits[q])

\* C5: for either engine and every k, _search returns max(k, 50) candidates,
\* or all the segments of the index if they are fewer.
C5_PoolIsMaxOfKAndFifty ==
    Searched => Len(raw_hits) = Min(Max(k, TopN), Len(store.ids))

(***************************************************************************)
(* Claims about metrics_rag, checked under SpecEval.                       *)
(***************************************************************************)
\* load_bench accepted the bench of the current dataset, and eval_dataset has
\* returned or has raised
EvalOver ==
    /\ ds > 0
    /\ ~BenchRaises(bench[ds])
    /\ pc \in {"load", "macro", "done", "aborted"}

AllEmpty(r) ==
    \A f \in {"latency_ms", "hit", "recall", "mrr", "ndcg", "map", "em", "f1"} :
        r[f] = <<>>

\* C6: when eval_dataset is over there is exactly one row per bench item, in
\* item order; the row of an item whose pipeline call failed has status ERR
\* and empty metric fields, the row of any other item has status OK; so no
\* failure of one item ends the batch.
C6_OneRowPerItem ==
    EvalOver =>
        /\ Len(rows) = Len(bench[ds])
        /\ Len(calls) = Len(rows)
        /\ \A i \in 1..Len(rows) :
              /\ rows[i].q = bench[ds][i].q
              /\ IF calls[i].ok THEN rows[i].status = "OK"
                 ELSE rows[i].status = "ERR" /\ AllEmpty(rows[i])

\* the items that have "q" are well formed: their "k" is an integer or is
\* missing, and their gold_regex compiles
OnlyQMissing(data) ==
    \A i \in 1..Len(data) :
        data[i].has_q => data[i].k[1] \in {"int", "absent"} /\ ~RegexRaises(data[i])

Stopped == ds > 0 /\ pc \in {"load", "macro", "done", "aborted"}

\* C7: in a benchmark whose only malformed items are items without "q", the
\* items that have "q" are all evaluated, one row each, and the run is not
\* aborted.
C7_MissingFieldRejectsItemOnly ==
    (Stopped /\ OnlyQMissing(bench[ds])) =>
        /\ pc # "aborted"
        /\ Len(rows) = Cardinality({i \in 1..Len(bench[ds]) : bench[ds][i].has_q})

MacroKeys == {"avg_latency_ms", "Hit", "Recall", "MRR", "nDCG", "MAP", "EM", "F1"}
\* a latency aggregate has two decimals, every other value three
Thousandths(key) == IF key = "avg_latency_ms" THEN 10 ELSE 1
Valued(key) == {i \in 1..Len(results) : results[i][key] # <<>>}
ValueSum(key) ==
    SumOver(Valued(key),
            [i \in 1..Len(results) |-> IF i \in Valued(key) THEN results[i][key][1] ELSE 0])

\* m is the mean of the datasets' aggregates of key, each counted once,
\* rounded to three decimals
IsUnweightedMean(m, key) ==
    IF Valued(key) = {} THEN m = <<>>
    ELSE /\ m # <<>>
         /\ 2 * Abs(Cardinality(Valued(key)) * m[1] - Thousandths(key) * ValueSum(key))
                <= Cardinality(Valued(key))

\* C8: every metric of macro_avg is the unweighted mean of the per-dataset
\* aggregates of that metric, whatever the datasets' query counts, and
\* queries_total is the sum of the datasets' query counts.
C8_MacroIsUnweightedMean ==
    pc = "done" =>
        /\ \A key \in MacroKeys : IsUnweightedMean(macro[key], key)
        /\ macro.datasets = Len(results)
        /\ macro.queries_total =
               SumOver(1..Len(results), [i \in 1..Len(results) |-> results[i].queries])
        /\ \A i \in 1..Len(results) : results[i].queries = Len(bench[i])

\* C8 witness: a dataset of one query with Hit@k 1.0 and a dataset of two
\* queries with Hit@k 0.0 give macro Hit@k 0.5 (pooled over the three
\* queries it would be 0.333).
C8_Witness ==
    /\ pc = "done"
    /\ Len(results) = 2
    /\ results[1].queries = 1 /\ results[1].Hit = <<1000>>
    /\ results[2].queries = 2 /\ results[2].Hit = <<0>>
    /\ macro.Hit = <<500>>
    /\ macro.queries_total = 3


(***************************************************************************)
(* More claims about extractive_answer, checked under SpecAnswer.          *)
(***************************************************************************)
AnsweredEmpty == pc = "done" /\ hits = <<>>

\* C11: with an empty hit list, extractive_answer returns the sentinel, the
\* answer "NOT_FOUND" with no citations, whatever the query is.
C11_EmptyHitsGiveNotFound ==
    AnsweredEmpty =>
        /\ ans.kind = "ok"
        /\ ans.answer = <<"N", "O", "T", "_", "F", "O", "U", "N", "D">>
        /\ ans.citations = <<>>

\* C11 witness: a query with a keyword trigger was answered on no hits.
C11_Witness ==
    /\ AnsweredEmpty
    /\ TrigGoverningLaw(QLower)
    /\ ans.answer = <<"N", "O", "T", "_", "F", "O", "U", "N", "D">>


(***************************************************************************)
(* Claims about compute_ranking_metrics, checked under SpecRank.  A metric *)
(* is the fraction <<numerator, denominator>>; a zero denominator stands   *)
(* for a division by zero.                                                 *)
(***************************************************************************)
Ranked5 == pc = "ranked"
MetricNames == {"hit", "recall", "mrr", "ndcg", "map"}
IsZero(x) == x[2] # 0 /\ x[1] = 0
IsOne(x) == x[2] # 0 /\ x[1] = x[2]
Divides(x) == x[2] # 0
\* the ranks, within the top k, of the hits whose id is in gold_ids
TopK == IF m_k = 0 \/ m_k > Len(m_hits) THEN Len(m_hits) ELSE m_k
GoldRanks == {i \in 1..TopK : \E j \in 1..Len(m_gold) : m_hits[i] = m_gold[j]}

\* C12: on an empty hit list all five metrics are 0, for any gold_ids and k;
\* on a non-empty hit list with empty gold_ids recall@k is 0 and no metric
\* divides by zero.
C12_EmptyHitsOrEmptyGold ==
    Ranked5 =>
        /\ m_hits = <<>> => \A n \in MetricNames : IsZero(m_rank[n])
        /\ (m_hits # <<>> /\ m_gold = <<>>) =>
               /\ IsZero(m_rank.recall)
               /\ \A n \in MetricNames : Divides(m_rank[n])

\* C12 witness: three hits ranked against no gold id, k_eval not given.
C12_Witness ==
    /\ Ranked5
    /\ Len(m_hits) = 3 /\ m_gold = <<>> /\ m_k = 0
    /\ IsZero(m_rank.recall)

\* C13: if the top-ranked hit is in gold_ids and no other hit within the top
\* k is, then ndcg@k is 1.0, for every hit-list length and every k >= 1.
C13_TopHitOnlyGivesFullNdcg ==
    (Ranked5 /\ m_k >= 1 /\ GoldRanks = {1}) => IsOne(m_rank.ndcg)

\* C13 witness: three hits, the first in gold_ids, the others not, k = 2.
C13_Witness ==
    /\ Ranked5
    /\ Len(m_hits) = 3 /\ m_k = 2 /\ GoldRanks = {1}
    /\ IsOne(m_rank.ndcg)

\* C14: on a non-empty hit list of which no hit within the top k is in
\* gold_ids, ndcg@k is 1.0.
C14_NoGoldHitGivesFullNdcg ==
    (Ranked5 /\ m_hits # <<>> /\ m_k >= 0 /\ GoldRanks = {}) => IsOne(m_rank.ndcg)


(***************************************************************************)
(* More claims about mmr, checked under SpecMMR.                           *)
(***************************************************************************)
\* C15: for every k and every candidate pool of at most k candidates, mmr
\* returns the pool unchanged: the same candidates with the same scores in the
\* same order.
C15_SmallPoolUnchanged ==
    (Diversified /\ Len(raw_hits) <= k) => hits = raw_hits

\* C15 witness: a pool of two candidates, the second with the higher score,
\* went through mmr with k = 2 and came out in the same order.
C15_Witness ==
    /\ Diversified
    /\ Len(raw_hits) = 2 /\ k = 2
    /\ raw_hits[1][2] < raw_hits[2][2]
    /\ hits = raw_hits


(***************************************************************************)
(* More claims about build_index and _search, checked under SpecIndex.     *)
(***************************************************************************)
IntentKeywords ==
    {<<"g", "o", "v", "e", "r", "n">>, <<"l", "a", "w">>, <<"j", "u", "r", "i", "s", "d">>, <<"t", "e", "r", "m", "i", "n", "a", "t">>, <<"e", "x", "p", "i", "r", "e">>, <<"p", "a", "y", "m", "e", "n", "t">>, <<"f", "e", "e">>,
     <<"f", "e", "e", "s">>, <<"c", "h", "a", "r", "g", "e", "s">>, <<"s", "e", "t", "t", "l", "e">>, <<"c", "o", "m", "p", "e", "n", "s", "a", "t", "i", "o", "n">>, <<"c", "o", "n", "s", "i", "d", "e", "r", "a", "t", "i", "o", "n">>,
     <<"r", "e", "m", "u", "n", "e", "r", "a", "t", "i", "o", "n">>, <<"p", "a", "r", "t", "i", "e", "s">>, <<"r", "o", "l", "e", "s">>}
NoIntent(qry) == \A w \in IntentKeywords : ~Contains(Lower(qry), w)

\* C16: a query that contains none of the intent keywords comes out of the
\* query rewriter unchanged, character for character, with nothing appended.
C16_NoIntentQueryUnchanged ==
    (Searched /\ NoIntent(query)) => q2 = query


(***************************************************************************)
(* Claims about the index blob, checked under SpecRebuild.                 *)
(***************************************************************************)
\* the input makes the build fail: no segment, an unknown engine name, or
\* the dense engine without its embedding backend
FailingBuild ==
    \/ InputSegments = <<>>
    \/ engine \notin {"tfidf", "sbert"}
    \/ engine = "sbert" /\ ~sbert_ok

\* C17: a build that fails for lack of segments, for an unknown engine name or
\* for a missing embedding backend raises, and neither creates nor overwrites
\* the blob at out_path: whatever was stored there stays as it was.
C17_FailedBuildLeavesBlob ==
    [][FailingBuild => /\ store' = store
                       /\ pc' \in {"build", "build_failed"}]_vars

\* C17 witness: a dense build without the backend has raised, and the index
\* stored before is still at the path.
C17_Witness ==
    /\ pc = "build_failed"
    /\ engine = "sbert" /\ ~sbert_ok /\ InputSegments # <<>>
    /\ store = PreviousIndex

\* C19: while build_index rewrites the index at a path, every load of that
\* path by a concurrent ask gets a complete index, the previous one or the
\* new one, never a partially written one.
C19_LoadsSeeCompleteIndex ==
    \A i \in 1..Len(loaded) :
        loaded[i] \in {NoIndex, PreviousIndex, Dumped(Segments(parsed), engine)}


(***************************************************************************)
(* Claims about generative_answer, checked under SpecGenerative.           *)
(***************************************************************************)
Generated == pc = "generated"
\* the replies that hold a well-formed {answer, citations} object
WellFormed ==
    {<<"{", "\"", "a", "n", "s", "w", "e", "r", "\"", ":", " ", "\"", "N", "O", "T", "_", "F", "O", "U", "N", "D", "\"", ",", " ", "\"", "c", "i", "t", "a", "t", "i", "o", "n", "s", "\"", ":", " ", "[", "]", "}">>,
     <<"S", "u", "r", "e", ":", " ", "{", "\"", "a", "n", "s", "w", "e", "r", "\"", ":", " ", "\"", "O", "h", "i", "o", "\"", ",", " ", "\"", "c", "i", "t", "a", "t", "i", "o", "n", "s", "\"", ":", " ", "[", "\"", "s", "1", "\"", "]", "}", " ", ".">>}
Sentinel == [kind |-> "ok", answer |-> <<"N", "O", "T", "_", "F", "O", "U", "N", "D">>, citations |-> <<>>]

\* C18: generative_answer never raises, and returns the NOT_FOUND sentinel
\* whenever the credentials are missing, the external call times out or
\* fails, or its reply holds no well-formed {answer, citations} object.
C18_GenerativeFailsClosed ==
    Generated =>
        /\ ans.kind # "raise"
        /\ (~api_key \/ call.kind # "text" \/ call.text \notin WellFormed)
               => ans = Sentinel


(***************************************************************************)
(* More claims about eval_dataset, checked under SpecEval.                 *)
(***************************************************************************)
\* eval_dataset has returned the aggregate of the rows now in `rows`
Aggregated == pc \in {"load", "macro", "done"} /\ ds > 0 /\ Len(results) = ds
LastAgg == results[Len(results)]
OkAt == {i \in 1..Len(rows) : rows[i].status = "OK"}
\* the OK rows that carry a value of the metric
OkWith(key) == {i \in OkAt : rows[i][key] # <<>>}
RowSum(key) ==
    SumOver(OkWith(key),
            [i \in 1..Len(rows) |-> IF i \in OkWith(key) THEN rows[i][key][1] ELSE 0])
\* m is the mean of the metric over the OK rows that carry it, rounded
IsMeanOfOk(m, key) ==
    IF OkWith(key) = {} THEN m = <<>>
    ELSE /\ m # <<>>
         /\ 2 * Abs(Cardinality(OkWith(key)) * m[1] - RowSum(key))
                <= Cardinality(OkWith(key))
\* m is the proportion, in thousandths and rounded, of the OK rows carrying
\* the metric whose value is 1
IsProportion(m, key) ==
    IF OkWith(key) = {} THEN m = <<>>
    ELSE /\ m # <<>>
         /\ 2 * Abs(Cardinality(OkWith(key)) * m[1]
                    - 1000 * Cardinality({i \in OkWith(key) : rows[i][key] = <<1000>>}))
                <= Cardinality(OkWith(key))
AggKeys ==
    {<<"avg_latency_ms", "latency_ms">>, <<"Hit", "hit">>, <<"Recall", "recall">>,
     <<"MRR", "mrr">>, <<"nDCG", "ndcg">>, <<"MAP", "map">>, <<"EM", "em">>,
     <<"F1", "f1">>}

\* C20: the aggregate of a dataset counts every row in 'queries' and the OK
\* rows in 'ok'; each of its metrics is the mean over the OK rows that carry
\* a value, so that ERR rows enter no mean; Hit@k and EM are the proportion
\* of the OK rows carrying a value whose value is 1.
C20_AggregatesOverOkRows ==
    Aggregated =>
        /\ LastAgg.queries = Len(rows)
        /\ LastAgg.ok = Cardinality(OkAt)
        /\ \A p \in AggKeys : IsMeanOfOk(LastAgg[p[1]], p[2])
        /\ IsProportion(LastAgg.Hit, "hit")
        /\ IsProportion(LastAgg.EM, "em")

\* C20 witness: a dataset of three items, one ERR row, one OK row with a hit
\* and one OK row without: queries 3, ok 2, Hit@k 0.5.
C20_Witness ==
    /\ Aggregated
    /\ Len(rows) = 3
    /\ rows[1].status = "ERR"
    /\ rows[2].status = "OK" /\ rows[2].hit = <<1000>>
    /\ rows[3].status = "OK" /\ rows[3].hit = <<0>>
    /\ LastAgg.queries = 3 /\ LastAgg.ok = 2 /\ LastAgg.Hit = <<500>>

(***************************************************************************)
(* Claims on retrieval, selection, the lexical fallback, the metrics, the  *)
(* CSV and the command line.                                               *)
(***************************************************************************)

TwoClauses(doc) ==
    /\ Len(doc) = 2
    /\ {doc[1], doc[2]} = {SegItem(<<"str", "s1">>, T.ny), SegItem(<<"str", "s2">>, T.term)}

RanksAbove(found, a, b) ==
    \E i, j \in 1..Len(found) : i < j /\ found[i][1] = a /\ found[j][1] = b

\* C22: on the index of s1 = 'This Agreement is governed by the laws of the
\* State of New York.' and s2 = 'Either party may terminate upon 30 days
\* notice.', ask('What is the governing law?') retrieves s1 above s2 and
\* answers a quoted string containing 'laws of the State of New York' with
\* the citations ['s1'].
C22_GoverningLawExample ==
    (pc \in {"asked", "ask_raised"} /\ TwoClauses(parsed) /\ query = Q.law) =>
        /\ pc = "asked"
        /\ RanksAbove(raw_hits, "s1", "s2")
        /\ ans.kind = "ok"
        /\ ans.answer[1] = "\"" /\ ans.answer[Len(ans.answer)] = "\""
        /\ Contains(ans.answer, <<"l", "a", "w", "s", " ", "o", "f", " ", "t", "h", "e", " ", "S", "t", "a", "t", "e", " ", "o", "f", " ", "N", "e", "w", " ", "Y", "o", "r", "k">>)
        /\ ans.citations = <<"s1">>

C22_Witness ==
    /\ pc = "asked"
    /\ parsed = <<SegItem(<<"str", "s1">>, T.ny), SegItem(<<"str", "s2">>, T.term)>>
    /\ engine = "tfidf"
    /\ query = Q.law
    /\ k = DefaultK
    /\ raw_hits[1][1] = "s1" /\ raw_hits[1][2] > 0
    /\ ans.citations = <<"s1">>

\* mmr ran its selection loop on the pool raw_hits
Selected == pc = "diversified" /\ Len(raw_hits) > k

\* the positions of the pool taken by the selection loop, in pick order
Chosen == Select(raw_hits, k, <<>>, 1..Len(raw_hits))

\* positions 1..n of the picks
Earlier(picks, n) == {picks[i] : i \in 1..n}

\* candidate j is the pick made after the picks sel: no remaining candidate
\* has a greater key, and none before j has an equal one
IsArgMax(key, j, rest) ==
    /\ j \in rest
    /\ \A o \in rest : ~Less(key[j], key[o]) /\ (o < j => Less(key[o], key[j]))

KeyAfter(picks, n) ==
    IF n = 1 THEN Rel(raw_hits)
    ELSE [j \in 1..Len(raw_hits) |->
             IF j \in Earlier(picks, n - 1) THEN <<0, 1>>
             ELSE Mix(Rel(raw_hits)[j], MaxSim(raw_hits, j, SubSeq(picks, 1, n - 1)))]

GreedyPicks(picks) ==
    \A n \in 1..Len(picks) :
        IsArgMax(Listed(KeyAfter(picks, n)), picks[n],
                 (1..Len(raw_hits)) \ Earlier(picks, n - 1))

\* mmr returned the k greedy picks
ReturnsGreedy(picks) ==
    /\ Len(hits) = k
    /\ hits = Picked(raw_hits, picks)
    /\ GreedyPicks(picks)

\* C23: when the pool has more than k candidates, mmr picks greedily: first
\* the candidate of greatest normalized relevance, then the remaining
\* candidate of greatest lambda * rel - (1 - lambda) * max cosine to the
\* picks so far, the earliest in pool order among equals, and stops after k
\* picks.
C23_GreedySelection == (Selected /\ k >= 0) => ReturnsGreedy(Chosen)

\* two picks out of three candidates, the second one decided by the cosine
\* to the first and not by relevance
C23_Witness ==
    /\ Selected
    /\ k = 2
    /\ Len(raw_hits) = 3
    /\ Len(hits) = 2
    /\ \E j \in 1..3 : j \notin Earlier(Chosen, 2) /\ raw_hits[j][2] > hits[2][2]

\* extractive_answer went through every matcher and reached the lexical
\* fallback
InFallback ==
    /\ pc = "done"
    /\ hits # <<>>
    /\ query \in {Q.none, Q.notice, Q.repeat}
    /\ \A w \in 1..7 : Branch(w, Lower(query), hits, Joined, MaxChars).kind = "next"

\* the number of distinct query terms a sentence contains
DistinctScore(sent, q_terms) ==
    Cardinality({q_terms[j] : j \in {n \in 1..Len(q_terms) :
                                        Contains(Lower(sent), q_terms[n])}})

\* the sentences the fallback may answer with: within max_chars and with a
\* query term
Eligible(sents, q_terms) ==
    {i \in 1..Len(sents) : /\ 0 < Len(sents[i]) /\ Len(sents[i]) <= MaxChars
                           /\ DistinctScore(sents[i], q_terms) > 0}

EarliestBest(sents, q_terms, among) ==
    CHOOSE i \in among : \A o \in among :
        /\ DistinctScore(sents[o], q_terms) <= DistinctScore(sents[i], q_terms)
        /\ o < i => DistinctScore(sents[o], q_terms) < DistinctScore(sents[i], q_terms)

AnswersBest(sents, q_terms) ==
    Eligible(sents, q_terms) # {} =>
        /\ ans.kind = "ok"
        /\ ans.answer =
             Quoted(Strip(sents[EarliestBest(sents, q_terms, Eligible(sents, q_terms))]))

\* C24: the lexical fallback answers with the sentence, of at most max_chars
\* characters, that contains the most distinct query terms (a term the
\* query repeats counts once), the earliest one among equals.
C24_FallbackCountsDistinctTerms ==
    InFallback =>
        AnswersBest(ReSplit(PatSentenceSep, Joined, 0), QTerms(Lower(query)))

\* two results of compute_ranking_metrics with equal values
SameMetrics(a, b) ==
    \A name \in MetricNames : a[name] = b[name] \/ (IsZero(a[name]) /\ IsZero(b[name]))

\* C25: for every k >= 0 the metrics of compute_ranking_metrics(hits,
\* gold_ids, k) are those of the first min(k, len(hits)) hits: hits beyond
\* rank k change no metric.
C25_MetricsOfFirstK ==
    (pc = "ranked" /\ m_k >= 0) =>
        SameMetrics(m_rank,
                    compute_ranking_metrics(FirstN(m_hits, Min(m_k, Len(m_hits))),
                                            m_gold, m_k))

\* eval_dataset has written the CSV of the rows of the current dataset
Written == csv # <<>> /\ pc \in {"load", "macro"} /\ Len(csv.lines) = Len(rows)

\* the rows of the items evaluated in regex mode
RegexRows == {i \in 1..Len(rows) : rows[i].status = "OK" /\ rows[i].p1 # <<>>}

\* C26: the CSV of a dataset has the columns q, status, latency_ms, hit@k,
\* recall@k, mrr@k, ndcg@k, map@k, em, f1, err, and the line of an item
\* evaluated in regex mode carries its p1(regex) value as well.
C26_CsvCarriesP1 ==
    Written =>
        /\ SubSeq(csv.header, 1, 11) = CsvFields
        /\ \A i \in RegexRows :
              /\ "p1" \in DOMAIN csv.lines[i]
              /\ csv.lines[i]["p1"] = rows[i].p1

\* compute_ranking_metrics was called with k >= 1 on hits of distinct ids
RankedDistinct ==
    /\ pc = "ranked"
    /\ m_k >= 1
    /\ \A i, j \in 1..Len(m_hits) : m_hits[i] = m_hits[j] => i = j

IsPositive(x) == x[2] > 0 /\ x[1] > 0
AtMostOne(x) == x[2] > 0 /\ 0 <= x[1] /\ x[1] <= x[2]
\* x <= y for metrics with positive denominators
NotAbove(x, y) == x[1] * y[2] <= y[1] * x[2]

\* C27: for hits of distinct ids and k >= 1, the five metrics are all 0 when
\* no hit of the top k is in gold_ids and all positive otherwise; every
\* metric lies in [0, 1]; and map@k <= recall@k <= hit@k.
C27_MetricsConsistent ==
    RankedDistinct =>
        /\ GoldRanks = {} => \A name \in MetricNames : IsZero(m_rank[name])
        /\ GoldRanks # {} => \A name \in MetricNames : IsPositive(m_rank[name])
        /\ \A name \in MetricNames : AtMostOne(m_rank[name])
        /\ NotAbove(m_rank.map, m_rank.recall)
        /\ NotAbove(m_rank.recall, m_rank.hit)

\* a gold hit at rank 2 of 3 and another gold id not retrieved: the metrics
\* are positive and below 1
C27_Witness ==
    /\ RankedDistinct
    /\ Len(m_hits) = 3
    /\ GoldRanks = {2}
    /\ Len(m_gold) = 2
    /\ ~IsOne(m_rank.recall)
    /\ ~IsOne(m_rank.map)
    /\ IsOne(m_rank.hit)

\* the greatest raw score of the pool
PoolMax == Greatest({raw_hits[i][2] : i \in 1..Len(raw_hits)})

\* C28: on a pool of more than k >= 1 candidates, whatever the signs of the
\* scores, the first hit mmr returns has the greatest raw score of the
\* pool.
C28_FirstPickHasMaxScore ==
    (Selected /\ k >= 1) => hits[1][2] = PoolMax

\* extractive_answer returned on a non-empty hit list
ReturnedOnHits == pc = "done" /\ hits # <<>> /\ ans.kind = "ok"

IsHitId(id) == \E i \in 1..Len(hits) : hits[i][1] = id

\* C29: when extractive_answer returns on a non-empty hit list, the answer
\* is not the NOT_FOUND sentinel: it starts and ends with a double quote,
\* and the citations are non-empty, at most five, ids of the given hits, and
\* without a repeated id when the hit ids are distinct.
C29_ReturnsQuotedAnswerWithCitations ==
    ReturnedOnHits =>
        /\ ans.answer # NOT_FOUND
        /\ Len(ans.answer) >= 2
        /\ ans.answer[1] = "\"" /\ ans.answer[Len(ans.answer)] = "\""
        /\ ans.citations # <<>>
        /\ Len(ans.citations) <= TopCites
        /\ \A c \in 1..Len(ans.citations) : IsHitId(ans.citations[c])
        /\ NoRepeatedId(hits) =>
              \A c, d \in 1..Len(ans.citations) :
                  ans.citations[c] = ans.citations[d] => c = d

\* six hits and an answer found in none of them: the citations are the
\* first five hit ids
C29_Witness ==
    /\ ReturnedOnHits
    /\ Len(hits) = MaxHits
    /\ Len(ans.citations) = TopCites
    /\ ans.citations[TopCites] = SegId(TopCites)

\* C30: after any series of ensure_index calls on one idx_path, with varying
\* parsed documents and engines, the index the following ask loads is the
\* one built from the document and the engine of the latest call: its
\* meta.engine is the engine asked for.
C30_IndexOfLatestCall ==
    pc = "ensured" =>
        /\ store.meta.engine = engine
        /\ store = Dumped(Segments(parsed), engine)

=============================================================================
